---------------------------- MODULE Spec2Model ----------------------------
(***************************************************************************)
(* Attendance assistant: the workday calendar, the per-cell content        *)
(* parser, the data sanitizer, the month assembler and the month model,    *)
(* as state machines translated from the Python sources.                   *)
(*                                                                         *)
(* Strings of the source that are not ASCII are written with these names:  *)
(*   "Normal" = zheng-chang, "Abnormal" = yi-chang, "NotClocked" =         *)
(*   wei-da-ka (the three clock statuses); "Workday" = gong-zuo-ri,        *)
(*   "RestDay" = xiu-xi-ri, "Holiday" = jie-jia-ri (the day types).        *)
(* A date string "YYYY-MM-DD" is the tuple <<year, month, day>>, and a     *)
(* year-month string "YYYY-MM" the tuple <<year, month>>.                  *)
(***************************************************************************)
EXTENDS Integers, Sequences, FiniteSets, TLC

VARIABLES
    mode,               \* which component this behaviour exercises
    holidays,           \* WorkdayCalculator.holidays: year -> set of dates
    workdays_override,  \* WorkdayCalculator.workdays_override: year -> set of dates
    calQuery,           \* the last calendar lookup: [date, day_type, is_workday]
    parseIn,            \* _parse_cell_content's arguments: [texts, dots, row, col]
    parseOut,           \* its return value
    dotsIn,             \* _determine_status_from_dots's argument: the dots' colors
    dotStatus,          \* its return value, None before the call
    sanIn,              \* _validate_and_clean_attendance_data's argument
    sanOut,             \* its return value
    sanOut2,            \* its return value when applied to sanOut
    current_data,       \* MainController.current_data: None or a MonthlyAttendance
                        \* [year_month, data, statistics], data a list of object ids
    heap,               \* the DailyAttendance objects: id -> DailyAttendance
    configFile,         \* the content of config/holidays.json
    now,                \* datetime.now() as <<year, month>>
    lastOp,             \* the last call on the controller or the month: [op, args, ok]
    opCount,            \* the number of calls made
    original_image,     \* the picture, as what the recognizer reads in its top-left
                        \* region and in the whole of it: [top_left, whole]
    detected_cells,     \* the cells detected in it, in detection order
    extraction,         \* attendance_data of _extract_attendance_data
    pending,            \* the cells its loop has not visited yet: <<row_idx, cell>>
    processed_count,    \* its counter of processed cells
    consulted,          \* the regions read for a year-month so far, in call order
    recognized,         \* the cells recognize_text was called on so far: <<row, col>>
    upload,             \* what becomes of the uploaded file before extraction:
                        \* the stage that raises, or "none"
    view,               \* MainController.view: "none", or how its update ends
    result,             \* process_uploaded_image's return value, None before it
    data_at_call,       \* <<current_data, heap>> when process_uploaded_image was called
    contours,           \* the rectangles detect_table_cells made of the contours,
                        \* in contour order: [x, y, width, height, row, col]
    cells,              \* the list after _assign_cell_positions, None before
    holidays_json,      \* the content of config/holidays.json read by the registry
    registry,           \* the global _workday_calculator: None or Some(object id)
    calculators,        \* the WorkdayCalculator objects: id -> [holidays, workdays_override]
    pc,                 \* thread -> where it is in its call
    call,               \* thread -> the call it is in: "get" or "lookup"
    loading,            \* thread -> the object id it constructs and the items
                        \* of the file not loaded yet: [id, items], or None
    got,                \* thread -> what get_workday_calculator returned to it
    calls,              \* the history of completed calls
    building            \* _build_monthly_attendance in progress: [year_month,
                        \* records, days], days the DailyAttendance made so far

calVars == <<holidays, workdays_override, calQuery>>
parseVars == <<parseIn, parseOut>>
dotVars == <<dotsIn, dotStatus>>
sanVars == <<sanIn, sanOut, sanOut2>>
ctlVars == <<current_data, heap, configFile, now, lastOp, opCount>>
exVars == <<original_image, detected_cells, extraction, pending, processed_count,
           consulted, recognized>>
pipeVars == <<upload, view, result, data_at_call>>
gridVars == <<contours, cells>>
regVars == <<holidays_json, registry, calculators, pc, call, loading, got, calls>>
loopVars == <<building>>
vars == <<mode, calVars, parseVars, dotVars, sanVars, ctlVars, exVars, pipeVars,
          gridVars, regVars, loopVars>>

notCalVars == <<parseVars, dotVars, sanVars, ctlVars, exVars, pipeVars, gridVars, regVars, loopVars>>
notParseVars == <<calVars, dotVars, sanVars, ctlVars, exVars, pipeVars, gridVars, regVars, loopVars>>
notDotVars == <<calVars, parseVars, sanVars, ctlVars, exVars, pipeVars, gridVars, regVars, loopVars>>
notSanVars == <<calVars, parseVars, dotVars, ctlVars, exVars, pipeVars, gridVars, regVars, loopVars>>
notCtlVars == <<calVars, parseVars, dotVars, sanVars, exVars, pipeVars, gridVars, regVars, loopVars>>
notExVars == <<calVars, parseVars, dotVars, sanVars, ctlVars, pipeVars, gridVars, regVars, loopVars>>
notPipeVars == <<calVars, parseVars, dotVars, sanVars, gridVars, regVars, loopVars>>
notGridVars == <<calVars, parseVars, dotVars, sanVars, ctlVars, exVars, pipeVars, regVars, loopVars>>
notRegVars == <<calVars, parseVars, dotVars, sanVars, ctlVars, exVars, pipeVars, gridVars, loopVars>>

\* Python's None (an absent value) is the empty sequence, a value x is <<x>>
None == <<>>
Some(x) == <<x>>

(***************************************************************************)
(* Bounds of the model.                                                    *)
(***************************************************************************)
\* the calendar is exercised on the days 1..MaxPoolDay of February 2024
MaxPoolDay == 4
\* a cell holds at most MaxTexts recognized text fragments
MaxTexts == 2
\* and at most MaxDots detected dots
MaxDots == 5
\* the sanitizer is given at most MaxRawRecords daily records
MaxRawRecords == 2
\* the assembler is given at most MaxBuildRecords daily records
MaxBuildRecords == 2
\* at most MaxOps calls are made on the controller and its month
MaxOps == 3
\* at most MaxCells cells are detected in a picture
MaxCells == 3
\* at most MaxPipelineCells cells are detected in an uploaded file
MaxPipelineCells == 2
\* a crowded picture holds up to MaxExtraCells cells more than one less than
\* the loop's limit
MaxExtraCells == 3

(***************************************************************************)
(* The calendar: datetime / calendar.monthrange.                           *)
(***************************************************************************)
IsLeap(y) == (y % 4 = 0 /\ y % 100 # 0) \/ y % 400 = 0

\* calendar.monthrange(year, month)[1]
DaysInMonth(y, m) ==
    IF m = 2 THEN (IF IsLeap(y) THEN 29 ELSE 28)
    ELSE IF m \in {4, 6, 9, 11} THEN 30 ELSE 31

RECURSIVE DaysBeforeYear(_)
\* days from 2020-01-01 to <y>-01-01, for y >= 2020
DaysBeforeYear(y) ==
    IF y <= 2020 THEN 0
    ELSE DaysBeforeYear(y - 1) + (IF IsLeap(y - 1) THEN 366 ELSE 365)

RECURSIVE DaysBeforeMonth(_, _)
DaysBeforeMonth(y, m) ==
    IF m <= 1 THEN 0 ELSE DaysBeforeMonth(y, m - 1) + DaysInMonth(y, m - 1)

\* datetime.weekday(): 0 = Monday .. 6 = Sunday (2020-01-01 is a Wednesday)
Weekday(date) ==
    (2 + DaysBeforeYear(date[1]) + DaysBeforeMonth(date[1], date[2])
       + (date[3] - 1)) % 7

(***************************************************************************)
(* WorkdayCalculator (core/workday_calculator.py).  h and w are the        *)
(* instance's holidays and workdays_override dictionaries.                 *)
(***************************************************************************)
is_natural_workday_sunday_off(date) == Weekday(date) < 5

\* only Saturday (5) is not a natural workday
is_natural_workday(date) == Weekday(date) # 5

is_holiday(h, date) ==
    LET year == date[1]
    IN  IF year \in DOMAIN h THEN date \in h[year] ELSE FALSE

is_workday_override(w, date) ==
    LET year == date[1]
    IN  IF year \in DOMAIN w THEN date \in w[year] ELSE FALSE

is_workday(h, w, date) ==
    IF is_workday_override(w, date) THEN TRUE
    ELSE IF is_holiday(h, date) THEN FALSE
    ELSE is_natural_workday(date)

\* the holiday test comes first, as in the source
get_day_type(h, w, date) ==
    IF is_holiday(h, date) THEN "Holiday"
    ELSE IF is_workday_override(w, date) THEN "Workday"
    ELSE IF is_natural_workday(date) THEN "Workday"
    ELSE "RestDay"

\* dict[year] = set after "if year not in dict: dict[year] = set()"; set.add
DictAdd(dict, date) ==
    LET year == date[1]
        old  == IF year \in DOMAIN dict THEN dict[year] ELSE {}
    IN  [k \in DOMAIN dict \cup {year} |-> IF k = year THEN old \cup {date} ELSE dict[k]]

\* "if year in dict: dict[year].discard(date)"
DictDiscard(dict, date) ==
    [k \in DOMAIN dict |-> IF k = date[1] THEN dict[k] \ {date} ELSE dict[k]]

EmptyDict == [k \in {} |-> {}]

(***************************************************************************)
(* load_holiday_config.  A config file is [kind, items]: kind "missing",    *)
(* "malformed" (not JSON) or "json", with the (year key, year_config)      *)
(* items in file order; a year key is Some(n) when int(year_str) is n and  *)
(* None when int() raises ValueError; a year_config's 'holidays' and       *)
(* 'workdays' are None (key absent) or Some(set of dates).                 *)
(***************************************************************************)
RECURSIVE LoadItems(_, _, _)
LoadItems(h, w, items) ==
    IF items = <<>> THEN [holidays |-> h, workdays_override |-> w]
    ELSE LET it == Head(items)
         IN  IF it.year = None
             THEN [holidays |-> h, workdays_override |-> w]   \* ValueError caught
             ELSE LET year == it.year[1]
                  IN  LoadItems(
                        IF it.holidays = None THEN h
                        ELSE [k \in DOMAIN h \cup {year} |->
                                IF k = year THEN it.holidays[1] ELSE h[k]],
                        IF it.workdays = None THEN w
                        ELSE [k \in DOMAIN w \cup {year} |->
                                IF k = year THEN it.workdays[1] ELSE w[k]],
                        Tail(items))

load_holiday_config(h, w, config) ==
    IF config.kind \in {"missing", "malformed"}
    THEN [holidays |-> h, workdays_override |-> w]
    ELSE LoadItems(h, w, config.items)

\* WorkdayCalculator(config_path): empty dictionaries, then the load if the file exists
NewWorkdayCalculator(config) == load_holiday_config(EmptyDict, EmptyDict, config)

(***************************************************************************)
(* The calendar specification: an instance is edited and queried.          *)
(***************************************************************************)
DatePool == {<<2024, 2, d>> : d \in 1..MaxPoolDay}

\* the Saturdays of February 2024 (calendar fact, not computed)
KnownSaturdays == {<<2024, 2, 3>>, <<2024, 2, 10>>, <<2024, 2, 17>>, <<2024, 2, 24>>}

MissingConfig == [kind |-> "missing", items |-> <<>>]
MalformedConfig == [kind |-> "malformed", items |-> <<>>]
JsonConfig(items) == [kind |-> "json", items |-> items]

SampleConfigs ==
    { MissingConfig, MalformedConfig,
      JsonConfig(<< [year |-> Some(2024),
                     holidays |-> Some({<<2024, 2, 3>>, <<2024, 2, 4>>}),
                     workdays |-> Some({<<2024, 2, 4>>})] >>),
      \* dates filed under another year's key
      JsonConfig(<< [year |-> Some(2025), holidays |-> Some({<<2024, 2, 1>>}),
                     workdays |-> Some({<<2024, 2, 3>>})] >>),
      \* a key that is not a year, after a valid one
      JsonConfig(<< [year |-> Some(2024), holidays |-> Some({<<2024, 2, 2>>}), workdays |-> None],
                    [year |-> None, holidays |-> Some({<<2024, 2, 1>>}), workdays |-> None] >>) }

CalIdle == holidays = EmptyDict /\ workdays_override = EmptyDict /\ calQuery = None
ParseIdle == parseIn = None /\ parseOut = None
DotIdle == dotsIn = <<>> /\ dotStatus = None
SanIdle == sanIn = None /\ sanOut = None /\ sanOut2 = None
CtlIdle ==
    /\ current_data = None /\ heap = <<>> /\ configFile = None /\ now = <<>>
    /\ lastOp = None /\ opCount = 0
ExIdle ==
    /\ original_image = None /\ detected_cells = <<>> /\ extraction = None
    /\ pending = <<>> /\ processed_count = 0 /\ consulted = <<>> /\ recognized = <<>>
PipeIdle == upload = None /\ view = None /\ result = None /\ data_at_call = None
GridIdle == contours = <<>> /\ cells = None
RegIdle ==
    /\ holidays_json = None /\ registry = None /\ calculators = <<>>
    /\ pc = <<>> /\ call = <<>> /\ loading = <<>> /\ got = <<>> /\ calls = <<>>

LoopIdle == building = None

\* the variables of the parts named in G are constrained elsewhere: the others
\* have their idle values
IdleExcept(G) ==
    /\ IF "cal" \in G THEN TRUE ELSE CalIdle
    /\ IF "parse" \in G THEN TRUE ELSE ParseIdle
    /\ IF "dot" \in G THEN TRUE ELSE DotIdle
    /\ IF "san" \in G THEN TRUE ELSE SanIdle
    /\ IF "ctl" \in G THEN TRUE ELSE CtlIdle
    /\ IF "ex" \in G THEN TRUE ELSE ExIdle
    /\ IF "pipe" \in G THEN TRUE ELSE PipeIdle
    /\ IF "grid" \in G THEN TRUE ELSE GridIdle
    /\ IF "reg" \in G THEN TRUE ELSE RegIdle
    /\ IF "loop" \in G THEN TRUE ELSE LoopIdle

CalInit ==
    /\ mode = "calendar"
    /\ holidays = EmptyDict
    /\ workdays_override = EmptyDict
    /\ calQuery = None
    /\ IdleExcept({"cal"})

add_holiday(date) ==
    /\ mode = "calendar"
    /\ holidays' = DictAdd(holidays, date)
    /\ calQuery' = None
    /\ UNCHANGED <<mode, workdays_override, notCalVars>>

add_workday_override(date) ==
    /\ mode = "calendar"
    /\ workdays_override' = DictAdd(workdays_override, date)
    /\ calQuery' = None
    /\ UNCHANGED <<mode, holidays, notCalVars>>

remove_holiday(date) ==
    /\ mode = "calendar"
    /\ holidays' = DictDiscard(holidays, date)
    /\ calQuery' = None
    /\ UNCHANGED <<mode, workdays_override, notCalVars>>

remove_workday_override(date) ==
    /\ mode = "calendar"
    /\ workdays_override' = DictDiscard(workdays_override, date)
    /\ calQuery' = None
    /\ UNCHANGED <<mode, holidays, notCalVars>>

LoadConfig(config) ==
    /\ mode = "calendar"
    /\ LET r == load_holiday_config(holidays, workdays_override, config)
       IN  /\ holidays' = r.holidays
           /\ workdays_override' = r.workdays_override
    /\ calQuery' = None
    /\ UNCHANGED <<mode, notCalVars>>

\* one lookup of both public queries on the instance as it is
Lookup(date) ==
    /\ mode = "calendar"
    /\ calQuery' = Some([date |-> date,
                         day_type |-> get_day_type(holidays, workdays_override, date),
                         is_workday |-> is_workday(holidays, workdays_override, date)])
    /\ UNCHANGED <<mode, holidays, workdays_override, notCalVars>>

CalNext ==
    \/ \E date \in DatePool : add_holiday(date)
    \/ \E date \in DatePool : add_workday_override(date)
    \/ \E date \in DatePool : remove_holiday(date)
    \/ \E date \in DatePool : remove_workday_override(date)
    \/ \E config \in SampleConfigs : LoadConfig(config)
    \/ \E date \in DatePool : Lookup(date)

SpecCalendar == CalInit /\ [][CalNext]_vars

InOverrideSetOfItsYear(date) ==
    date[1] \in DOMAIN workdays_override /\ date \in workdays_override[date[1]]

InHolidaySetOfItsYear(date) ==
    date[1] \in DOMAIN holidays /\ date \in holidays[date[1]]

\* C1: a date in the override-workday set of its year is classified Workday
\* by get_day_type, also when it is in the holiday set of that year.
C1_OverrideBeatsHoliday ==
    (calQuery # None /\ InOverrideSetOfItsYear(calQuery[1].date))
        => calQuery[1].day_type = "Workday"

\* C2: a date outside the override set of its year is Holiday when it is in
\* the holiday set of its year, otherwise RestDay exactly on a Saturday and
\* Workday on every other weekday, Sunday included.
C2_DayTypeWithoutOverride ==
    (calQuery # None /\ ~InOverrideSetOfItsYear(calQuery[1].date))
        => calQuery[1].day_type =
              (IF InHolidaySetOfItsYear(calQuery[1].date) THEN "Holiday"
               ELSE IF calQuery[1].date \in KnownSaturdays THEN "RestDay"
               ELSE "Workday")

\* a Sunday outside both sets was looked up, and a holiday outside the override set
C2_Witness ==
    /\ calQuery # None
    /\ calQuery[1].date = <<2024, 2, 4>>
    /\ ~InOverrideSetOfItsYear(calQuery[1].date)
    /\ ~InHolidaySetOfItsYear(calQuery[1].date)
    /\ calQuery[1].day_type = "Workday"
    /\ InHolidaySetOfItsYear(<<2024, 2, 3>>)


(***************************************************************************)
(* Text.  A Python str is the sequence of its characters; a character is   *)
(* a one-character string, and a Chinese character is written by its       *)
(* pinyin: "nian" (year), "yue" (month), "ri" (day), "zhou", "xing", "qi", *)
(* "tian", "yi" .. "liu" (one .. six), "kao", "qin", "da", "ka", "chu".    *)
(* "x" stands for any other character.                                     *)
(***************************************************************************)
DigitChars == <<"0", "1", "2", "3", "4", "5", "6", "7", "8", "9">>

IsDigit(c) == \E i \in 1..10 : DigitChars[i] = c

DigitVal(c) == (CHOOSE i \in 1..10 : DigitChars[i] = c) - 1

\* the character at position p (from 1), "" past either end
At(t, p) == IF p \in 1..Len(t) THEN t[p] ELSE ""

\* int() of the n digits at p
RECURSIVE Num(_, _, _)
Num(t, p, n) == IF n = 0 THEN 0 ELSE Num(t, p, n - 1) * 10 + DigitVal(t[p + n - 1])

\* whether the n characters from p are digits
DigitsAt(t, p, n) == \A i \in 0..(n - 1) : IsDigit(At(t, p + i))

\* \s* : the first position from p that holds no white space
RECURSIVE SkipSpaces(_, _)
SkipSpaces(t, p) == IF At(t, p) = " " THEN SkipSpaces(t, p + 1) ELSE p

\* ' '.join(texts)
RECURSIVE Join(_)
Join(texts) ==
    IF texts = <<>> THEN <<>>
    ELSE IF Len(texts) = 1 THEN texts[1]
    ELSE texts[1] \o <<" ">> \o Join(Tail(texts))

\* "sub in t"
Contains(t, sub) ==
    \E p \in 1..(Len(t) - Len(sub) + 1) : SubSeq(t, p, p + Len(sub) - 1) = sub

\* str.strip()
RECURSIVE LStrip(_)
LStrip(t) == IF t # <<>> /\ Head(t) = " " THEN LStrip(Tail(t)) ELSE t
RECURSIVE RStrip(_)
RStrip(t) ==
    IF t # <<>> /\ t[Len(t)] = " " THEN RStrip(SubSeq(t, 1, Len(t) - 1)) ELSE t
Strip(t) == RStrip(LStrip(t))

\* f"{n:02d}" for n >= 0
Fmt02(n) ==
    IF n < 10 THEN <<"0", DigitChars[n + 1]>>
    ELSE IF n < 100 THEN <<DigitChars[(n \div 10) + 1], DigitChars[(n % 10) + 1]>>
    ELSE <<DigitChars[(n \div 100) + 1], DigitChars[((n \div 10) % 10) + 1],
           DigitChars[(n % 10) + 1]>>

(***************************************************************************)
(* The year-month regular expressions.  A pattern is named by its shape:   *)
(*   "nian_yue"        (\d{4})nian(\d{1,2})yue                             *)
(*   "nian_0_yue"      (\d{4})nian0?(\d{1,2})yue                           *)
(*   "nian_yue_spaced" (\d{4})\s*nian\s*(\d{1,2})\s*yue                    *)
(*   "-", ".", "/"     (\d{4})<sep>(\d{1,2})                               *)
(*   "yyyymm"          (\d{4})(\d{2})                                      *)
(* MatchAt is the match of the pattern that starts at position p, with     *)
(* the greedy quantifiers and the backtracking of Python's re; Search is   *)
(* re.search: the match at the leftmost position that has one.             *)
(***************************************************************************)
Groups(t, p, q, k) == Some([year |-> Num(t, p, 4), month |-> Num(t, q, k)])

MatchAt(pattern, t, p) ==
    IF ~DigitsAt(t, p, 4) THEN None
    ELSE IF pattern = "nian_yue" THEN
        IF At(t, p + 4) # "nian" THEN None
        ELSE IF DigitsAt(t, p + 5, 2) /\ At(t, p + 7) = "yue" THEN Groups(t, p, p + 5, 2)
        ELSE IF DigitsAt(t, p + 5, 1) /\ At(t, p + 6) = "yue" THEN Groups(t, p, p + 5, 1)
        ELSE None
    ELSE IF pattern = "nian_0_yue" THEN
        IF At(t, p + 4) # "nian" THEN None
        ELSE IF At(t, p + 5) = "0" /\ DigitsAt(t, p + 6, 2) /\ At(t, p + 8) = "yue"
             THEN Groups(t, p, p + 6, 2)
        ELSE IF At(t, p + 5) = "0" /\ DigitsAt(t, p + 6, 1) /\ At(t, p + 7) = "yue"
             THEN Groups(t, p, p + 6, 1)
        ELSE IF DigitsAt(t, p + 5, 2) /\ At(t, p + 7) = "yue" THEN Groups(t, p, p + 5, 2)
        ELSE IF DigitsAt(t, p + 5, 1) /\ At(t, p + 6) = "yue" THEN Groups(t, p, p + 5, 1)
        ELSE None
    ELSE IF pattern = "nian_yue_spaced" THEN
        LET a == SkipSpaces(t, p + 4)
            q == SkipSpaces(t, a + 1)
            k == IF DigitsAt(t, q, 2) THEN 2 ELSE IF DigitsAt(t, q, 1) THEN 1 ELSE 0
        IN  IF At(t, a) = "nian" /\ k > 0 /\ At(t, SkipSpaces(t, q + k)) = "yue"
            THEN Groups(t, p, q, k) ELSE None
    ELSE IF pattern = "yyyymm" THEN
        IF DigitsAt(t, p + 4, 2) THEN Groups(t, p, p + 4, 2) ELSE None
    ELSE \* a separator character
        IF At(t, p + 4) # pattern THEN None
        ELSE IF DigitsAt(t, p + 5, 2) THEN Groups(t, p, p + 5, 2)
        ELSE IF DigitsAt(t, p + 5, 1) THEN Groups(t, p, p + 5, 1)
        ELSE None

MatchPositions(pattern, t) == {p \in 1..Len(t) : MatchAt(pattern, t, p) # None}

SetMin(S) == CHOOSE x \in S : \A y \in S : x <= y

Search(pattern, t) ==
    IF MatchPositions(pattern, t) = {} THEN None
    ELSE MatchAt(pattern, t, SetMin(MatchPositions(pattern, t)))

\* "2020 <= year <= 2030 and 1 <= month <= 12"
SaneYearMonth(g) == 2020 <= g.year /\ g.year <= 2030 /\ 1 <= g.month /\ g.month <= 12

\* "for pattern in patterns: m = re.search(pattern, text); if m and sane: return"
\* None, or Some(<<year, month>>): the string f"{year:04d}-{month:02d}"
RECURSIVE FirstSaneMatch(_, _)
FirstSaneMatch(patterns, t) ==
    IF patterns = <<>> THEN None
    ELSE LET m == Search(Head(patterns), t)
         IN  IF m # None /\ SaneYearMonth(m[1])
             THEN Some(<<m[1].year, m[1].month>>)
             ELSE FirstSaneMatch(Tail(patterns), t)

year_month_patterns_hyphen_first == <<"-", "nian_yue", "nian_yue_spaced", ".", "/">>

\* _parse_cell_content: year_month_patterns, in list order
year_month_patterns == <<"nian_yue", "nian_yue_spaced", "-", ".", "/">>


(***************************************************************************)
(* _parse_cell_content and its helpers (controllers/main_controller.py).   *)
(***************************************************************************)
\* re.search(r'(\d{1,2})ri?', text): None, or Some(int(group(1)))
DaySearch(t) ==
    LET ps == {p \in 1..Len(t) : IsDigit(t[p])}
    IN  IF ps = {} THEN None
        ELSE LET p == SetMin(ps)
             IN  Some(Num(t, p, IF DigitsAt(t, p, 2) THEN 2 ELSE 1))

\* the weekday_patterns dictionary in iteration order (its first key is
\* written twice in the source, which keeps the first position)
weekday_patterns ==
    << [alts |-> {<<"zhou", "ri">>, <<"xing", "qi", "ri">>,
                  <<"zhou", "tian">>, <<"xing", "qi", "tian">>}, weekday |-> "ZhouRi"],
       [alts |-> {<<"zhou", "yi">>, <<"xing", "qi", "yi">>}, weekday |-> "ZhouYi"],
       [alts |-> {<<"zhou", "er">>, <<"xing", "qi", "er">>}, weekday |-> "ZhouEr"],
       [alts |-> {<<"zhou", "san">>, <<"xing", "qi", "san">>}, weekday |-> "ZhouSan"],
       [alts |-> {<<"zhou", "si">>, <<"xing", "qi", "si">>}, weekday |-> "ZhouSi"],
       [alts |-> {<<"zhou", "wu">>, <<"xing", "qi", "wu">>}, weekday |-> "ZhouWu"],
       [alts |-> {<<"zhou", "liu">>, <<"xing", "qi", "liu">>}, weekday |-> "ZhouLiu"] >>

RECURSIVE FirstWeekday(_, _)
FirstWeekday(patterns, t) ==
    IF patterns = <<>> THEN ""
    ELSE IF \E a \in Head(patterns).alts : Contains(t, a) THEN Head(patterns).weekday
    ELSE FirstWeekday(Tail(patterns), t)

_extract_weekday(t) == FirstWeekday(weekday_patterns, t)

\* the length of the match of (\d{1,2}):(\d{2}) at p, 0 when there is none
TimeMatchLen(t, p) ==
    IF DigitsAt(t, p, 2) /\ At(t, p + 2) = ":" /\ DigitsAt(t, p + 3, 2) THEN 5
    ELSE IF DigitsAt(t, p, 1) /\ At(t, p + 1) = ":" /\ DigitsAt(t, p + 2, 2) THEN 4
    ELSE 0

\* re.findall(time_pattern, text), each match already formatted
\* f"{int(hour):02d}:{minute}"
RECURSIVE FindAllTimes(_, _)
FindAllTimes(t, p) ==
    IF p > Len(t) THEN <<>>
    ELSE LET n == TimeMatchLen(t, p)
         IN  IF n = 0 THEN FindAllTimes(t, p + 1)
             ELSE << Fmt02(Num(t, p, n - 3)) \o <<":">> \o SubSeq(t, p + n - 2, p + n - 1) >>
                    \o FindAllTimes(t, p + n)

_extract_times(t) ==
    LET matches == FindAllTimes(t, 1)
    IN  IF Len(matches) >= 2 THEN [clock_in |-> matches[1], clock_out |-> matches[2]]
        ELSE IF Len(matches) = 1 THEN [clock_in |-> matches[1], clock_out |-> <<>>]
        ELSE [clock_in |-> <<>>, clock_out |-> <<>>]

IsGreen(dot) == dot = "green"
IsGray(dot) == dot = "gray"

_determine_status_from_dots_gray_ignored(dots) ==
    LET g == Len(SelectSeq(dots, IsGreen))
    IN  [clock_in_status |-> IF g >= 1 THEN "Normal" ELSE "NotClocked",
         clock_out_status |-> IF g >= 2 THEN "Normal" ELSE "NotClocked"]

\* a dot is its color
_determine_status_from_dots(dots) ==
    LET green_dots == SelectSeq(dots, IsGreen)
        gray_dots  == SelectSeq(dots, IsGray)
    IN  IF Len(green_dots) >= 2
        THEN [clock_in_status |-> "Normal", clock_out_status |-> "Normal"]
        ELSE IF Len(green_dots) = 1
        THEN [clock_in_status |-> "Normal",
              clock_out_status |-> IF Len(gray_dots) >= 1 THEN "Abnormal" ELSE "NotClocked"]
        ELSE IF Len(gray_dots) >= 1
        THEN [clock_in_status |-> "Abnormal",
              clock_out_status |-> IF Len(gray_dots) >= 2 THEN "Abnormal" ELSE "NotClocked"]
        ELSE [clock_in_status |-> "NotClocked", clock_out_status |-> "NotClocked"]

month_keywords == {<<"yue">>, <<"nian">>, <<"kao", "qin">>, <<"da", "ka">>, <<"chu", "qin">>}

\* None, or Some(cell_data)
_parse_cell_content(texts, dots, row, col) ==
    LET combined_text == Join(texts)
        header == FirstSaneMatch(year_month_patterns, combined_text)
        date_match == DaySearch(combined_text)
    IN  IF header # None
        THEN Some([type |-> "header", year_month |-> header])
        ELSE IF date_match # None /\ 1 <= date_match[1] /\ date_match[1] <= 31
        THEN Some([type |-> "daily", day |-> date_match[1],
                   weekday |-> _extract_weekday(combined_text),
                   times |-> _extract_times(combined_text),
                   status |-> _determine_status_from_dots(dots),
                   row |-> row, col |-> col])
        ELSE IF (row = 0 \/ col = 0)
                /\ \E keyword \in month_keywords : Contains(combined_text, keyword)
        THEN Some([type |-> "header", year_month |-> None, text |-> combined_text])
        ELSE None


(***************************************************************************)
(* The parser specification: one cell's texts and dots are drawn, then     *)
(* parsed.                                                                 *)
(***************************************************************************)
\* text fragments as the recognizer returns them
Fragments ==
    { <<"2", "0", "2", "5", "nian", "0", "9", "yue">>,        \* 2025nian09yue
      <<"2", "0", "2", "5", "-", "1", "0">>,                   \* 2025-10
      <<"2", "0", "1", "9", "nian", "9", "yue">>,              \* 2019nian9yue: year out of range
      <<"2", "0", "2", "5", " ", "nian", " ", "3", "yue">>,    \* 2025 nian 3yue
      <<"2", "0", "2", "4", "/", "1", "3">>,                   \* 2024/13: month out of range
      <<"2", "0", "2", "6", ".", "1">>,                        \* 2026.1
      <<"1", "5", "ri">>,                                      \* 15ri
      <<"zhou", "tian", " ", "9", ":", "0", "5", " ", "2", "5", ":", "0", "0">>,
      <<"kao", "qin">>,
      <<"4", "5">> }

SeqsUpTo(S, n) == UNION {[1..k -> S] : k \in 0..n}

Positions == {<<0, 0>>, <<1, 2>>}

DotSamples == {<<>>, <<"green", "gray">>, <<"gray", "gray">>}

ParseInit ==
    /\ mode = "parse"
    /\ parseIn \in { Some([texts |-> ts, dots |-> ds, row |-> rc[1], col |-> rc[2]]) :
                        ts \in SeqsUpTo(Fragments, MaxTexts),
                        ds \in DotSamples,
                        rc \in Positions }
    /\ parseOut = None
    /\ IdleExcept({"parse"})

ParseCell ==
    /\ mode = "parse"
    /\ mode' = "parsed"
    /\ parseOut' = _parse_cell_content(parseIn[1].texts, parseIn[1].dots,
                                       parseIn[1].row, parseIn[1].col)
    /\ UNCHANGED <<parseIn, notParseVars>>

ParseNext == ParseCell

SpecParse == ParseInit /\ [][ParseNext]_vars

(***************************************************************************)
(* The marker specification: a cell's dots are drawn, then classified.     *)
(***************************************************************************)
DotInit ==
    /\ mode = "dots"
    /\ dotsIn \in SeqsUpTo({"green", "gray"}, MaxDots)
    /\ dotStatus = None
    /\ IdleExcept({"dot"})

DetermineStatus ==
    /\ mode = "dots"
    /\ dotStatus = None
    /\ dotStatus' = Some(_determine_status_from_dots(dotsIn))
    /\ UNCHANGED <<mode, dotsIn, notDotVars>>

DotNext == DetermineStatus

SpecDots == DotInit /\ [][DotNext]_vars

GreenCount == Cardinality({i \in DOMAIN dotsIn : dotsIn[i] = "green"})
GrayCount == Cardinality({i \in DOMAIN dotsIn : dotsIn[i] = "gray"})

\* C8: g green and y gray markers give (clock-in, clock-out) = (Normal, Normal)
\* for g >= 2; (Normal, Abnormal) for g = 1, y >= 1; (Normal, NotClocked) for
\* g = 1, y = 0; (Abnormal, Abnormal) for g = 0, y >= 2; (Abnormal, NotClocked)
\* for g = 0, y = 1; (NotClocked, NotClocked) for g = 0, y = 0.
C8_MarkerStatusTable ==
    dotStatus # None =>
        LET g == GreenCount
            y == GrayCount
            in_out == <<dotStatus[1].clock_in_status, dotStatus[1].clock_out_status>>
        IN  /\ (g >= 2) => in_out = <<"Normal", "Normal">>
            /\ (g = 1 /\ y >= 1) => in_out = <<"Normal", "Abnormal">>
            /\ (g = 1 /\ y = 0) => in_out = <<"Normal", "NotClocked">>
            /\ (g = 0 /\ y >= 2) => in_out = <<"Abnormal", "Abnormal">>
            /\ (g = 0 /\ y = 1) => in_out = <<"Abnormal", "NotClocked">>
            /\ (g = 0 /\ y = 0) => in_out = <<"NotClocked", "NotClocked">>

\* one green and two gray markers were classified
C8_Witness ==
    /\ dotStatus # None
    /\ GreenCount = 1
    /\ GrayCount = 2
    /\ dotStatus[1] = [clock_in_status |-> "Normal", clock_out_status |-> "Abnormal"]

\* the patterns in the order the claim fixes
C9_PriorityOrder == <<"nian_yue", "nian_yue_spaced", "-", ".", "/">>

C9_SaneAt(i) ==
    LET m == Search(C9_PriorityOrder[i], Join(parseIn[1].texts))
    IN  m # None /\ SaneYearMonth(m[1])

C9_Winner == SetMin({i \in 1..Len(C9_PriorityOrder) : C9_SaneAt(i)})

\* C9: header detection returns the year and month of the first pattern, in
\* the fixed list order, whose match has year in 2020..2030 and month in
\* 1..12, wherever the matches of later patterns lie in the text; a text with
\* such a match of both the nian-yue and the hyphen pattern resolves through
\* the former; with no such match no year-month is returned.
C9_HeaderPriority ==
    mode = "parsed" =>
        LET t == Join(parseIn[1].texts)
            found == parseOut # None /\ parseOut[1].type = "header"
                        /\ parseOut[1].year_month # None
        IN  /\ found <=> (\E i \in 1..Len(C9_PriorityOrder) : C9_SaneAt(i))
            /\ found =>
                 LET m == Search(C9_PriorityOrder[C9_Winner], t)[1]
                 IN  parseOut[1].year_month = Some(<<m.year, m.month>>)
            /\ (C9_SaneAt(1) /\ C9_SaneAt(3)) =>
                 LET m == Search("nian_yue", t)[1]
                 IN  parseOut[1].year_month = Some(<<m.year, m.month>>)

\* "2025-10 2025nian09yue": the hyphen match comes first in the text, and the
\* cell resolves to 2025-09 through the nian-yue pattern
C9_Witness ==
    /\ mode = "parsed"
    /\ parseIn[1].texts = << <<"2", "0", "2", "5", "-", "1", "0">>,
                             <<"2", "0", "2", "5", "nian", "0", "9", "yue">> >>
    /\ parseOut = Some([type |-> "header", year_month |-> Some(<<2025, 9>>)])


(***************************************************************************)
(* _validate_and_clean_attendance_data (controllers/main_controller.py).   *)
(* A dict is a function on the keys it has; a value that is not a str      *)
(* where the code calls .strip() is NotAStr.                               *)
(***************************************************************************)
\* dict.get(key, default)
Get(d, key, default) == IF key \in DOMAIN d THEN d[key] ELSE default

NotAStr == <<"not-a-str">>

CanonicalStatuses == {"Normal", "Abnormal", "NotClocked"}

\* str.split(':')
RECURSIVE SplitColon(_)
SplitColon(t) ==
    IF \A i \in 1..Len(t) : t[i] # ":" THEN <<t>>
    ELSE LET p == SetMin({i \in 1..Len(t) : t[i] = ":"})
         IN  <<SubSeq(t, 1, p - 1)>> \o SplitColon(SubSeq(t, p + 1, Len(t)))

\* int(str): None when it raises ValueError
PyInt(t) ==
    LET u == Strip(t)
        signed == u # <<>> /\ u[1] \in {"-", "+"}
        ds == IF signed THEN Tail(u) ELSE u
    IN  IF ds = <<>> \/ ~DigitsAt(ds, 1, Len(ds)) THEN None
        ELSE IF signed /\ u[1] = "-" THEN Some(0 - Num(ds, 1, Len(ds)))
        ELSE Some(Num(ds, 1, Len(ds)))

CleanTime_no_range_test(raw) ==
    LET time_str == Strip(raw)
        parts == SplitColon(time_str)
    IN  IF time_str # <<>> /\ Len(parts) = 2
           /\ PyInt(parts[1]) # None /\ PyInt(parts[2]) # None
        THEN Fmt02(PyInt(parts[1])[1]) \o <<":">> \o Fmt02(PyInt(parts[2])[1])
        ELSE <<>>

\* the body of "for time_type in ['clock_in', 'clock_out']", for a str
CleanTime(raw) ==
    LET time_str == Strip(raw)
        parts == SplitColon(time_str)
    IN  IF time_str # <<>> /\ Len(parts) >= 2
        THEN IF Len(parts) = 2
             THEN LET hour == PyInt(parts[1])
                      minute == PyInt(parts[2])
                  IN  IF hour = None \/ minute = None THEN <<>>      \* ValueError
                      ELSE IF 0 <= hour[1] /\ hour[1] <= 23
                              /\ 0 <= minute[1] /\ minute[1] <= 59
                      THEN Fmt02(hour[1]) \o <<":">> \o Fmt02(minute[1])
                      ELSE <<>>
             ELSE <<>>
        ELSE <<>>

CleanStatus_time_ignored(status_str, cleaned_time) ==
    IF status_str \in CanonicalStatuses THEN status_str ELSE "Normal"

\* the body of "for status_type in ['clock_in_status', 'clock_out_status']"
CleanStatus(status_str, cleaned_time) ==
    IF status_str \in CanonicalStatuses THEN status_str
    ELSE IF cleaned_time # <<>> THEN "Normal"
    ELSE "NotClocked"

\* whether a record passes "isinstance(record.get('day'), int)" and the range test
DayKept(record) == "day" \in DOMAIN record /\ record.day >= 1 /\ record.day <= 31

\* whether cleaning the record raises (a time that has no .strip())
CleanRaises(record) ==
    LET times == Get(record, "times", <<>>)
    IN  DayKept(record)
        /\ (Get(times, "clock_in", <<>>) = NotAStr \/ Get(times, "clock_out", <<>>) = NotAStr)

CleanRecord_times_swapped(record) ==
    LET times == Get(record, "times", <<>>)
        status == Get(record, "status", <<>>)
        cleaned_times == [clock_in |-> CleanTime(Get(times, "clock_out", <<>>)),
                          clock_out |-> CleanTime(Get(times, "clock_in", <<>>))]
    IN  [type |-> "daily", day |-> record.day, weekday |-> Get(record, "weekday", ""),
         times |-> cleaned_times,
         status |-> [clock_in_status |->
                        CleanStatus(Get(status, "clock_in_status", "NotClocked"),
                                    cleaned_times.clock_in),
                     clock_out_status |->
                        CleanStatus(Get(status, "clock_out_status", "NotClocked"),
                                    cleaned_times.clock_out)],
         row |-> Get(record, "row", 0), col |-> Get(record, "col", 0)]

\* cleaned_record of a record that is kept
CleanRecord(record) ==
    LET times == Get(record, "times", <<>>)
        status == Get(record, "status", <<>>)
        cleaned_times == [clock_in |-> CleanTime(Get(times, "clock_in", <<>>)),
                          clock_out |-> CleanTime(Get(times, "clock_out", <<>>))]
    IN  [type |-> "daily", day |-> record.day, weekday |-> Get(record, "weekday", ""),
         times |-> cleaned_times,
         status |-> [clock_in_status |->
                        CleanStatus(Get(status, "clock_in_status", "NotClocked"),
                                    cleaned_times.clock_in),
                     clock_out_status |->
                        CleanStatus(Get(status, "clock_out_status", "NotClocked"),
                                    cleaned_times.clock_out)],
         row |-> Get(record, "row", 0), col |-> Get(record, "col", 0)]

RECURSIVE CleanRecords(_)
CleanRecords(records) ==
    IF records = <<>> THEN <<>>
    ELSE IF DayKept(Head(records))
    THEN <<CleanRecord(Head(records))>> \o CleanRecords(Tail(records))
    ELSE CleanRecords(Tail(records))

\* on an exception the argument itself is returned
_validate_and_clean_attendance_data(attendance_data) ==
    IF \E i \in 1..Len(attendance_data.daily_records) :
            CleanRaises(attendance_data.daily_records[i])
    THEN attendance_data
    ELSE [year_month |-> attendance_data.year_month,
          daily_records |-> CleanRecords(attendance_data.daily_records)]


(***************************************************************************)
(* The sanitizer specification: raw attendance data is drawn, cleaned,     *)
(* and the result cleaned again.                                           *)
(***************************************************************************)
T_0900 == <<"0", "9", ":", "0", "0">>
T_1830 == <<"1", "8", ":", "3", "0">>
T_1830_padded == <<" ", "1", "8", ":", "3", "0", " ">>
T_9_5 == <<"9", ":", "5">>
T_2500 == <<"2", "5", ":", "0", "0">>
T_1260 == <<"1", "2", ":", "6", "0">>
T_1_2_3 == <<"1", ":", "2", ":", "3">>
T_x_10 == <<"x", ":", "1", "0">>
T_0900_no_colon == <<"0", "9", "0", "0">>
T_minus1_30 == <<"-", "1", ":", "3", "0">>
T_1_space_05 == <<"1", " ", ":", "0", "5">>

RawRecord(day, tin, tout, sin, sout) ==
    [type |-> "daily", day |-> day, weekday |-> "ZhouYi",
     times |-> [clock_in |-> tin, clock_out |-> tout],
     status |-> [clock_in_status |-> sin, clock_out_status |-> sout],
     row |-> 1, col |-> 2]

RawRecordPool ==
    { RawRecord(5, T_0900, T_1830_padded, "NotClocked", "late"),
      RawRecord(5, T_9_5, <<>>, "late", "late"),
      RawRecord(31, T_2500, T_1260, "late", "Abnormal"),
      RawRecord(7, T_1_2_3, T_x_10, "Normal", "late"),
      RawRecord(7, T_0900_no_colon, T_minus1_30, "late", "NotClocked"),
      RawRecord(8, T_1_space_05, T_1830, "Abnormal", "Normal"),
      RawRecord(0, T_0900, T_1830, "Normal", "Normal"),
      RawRecord(32, T_0900, T_1830, "Normal", "Normal"),
      \* no 'day' key: record.get('day') is None, not an int
      [type |-> "daily", weekday |-> "ZhouEr",
       times |-> [clock_in |-> T_0900, clock_out |-> T_1830]],
      \* only a day: every other key takes its default
      [day |-> 9],
      \* keys missing inside times and status
      [day |-> 3, times |-> [clock_in |-> T_0900],
       status |-> [clock_out_status |-> "Abnormal"], row |-> 4],
      \* a time that is not a str: .strip() raises
      RawRecord(6, NotAStr, T_0900, "Normal", "Normal") }

SanInit ==
    /\ mode = "sanitize"
    /\ sanIn \in { Some([year_month |-> ym, daily_records |-> rs]) :
                      ym \in {None, Some(<<2025, 9>>)},
                      rs \in SeqsUpTo(RawRecordPool, MaxRawRecords) }
    /\ sanOut = None
    /\ sanOut2 = None
    /\ IdleExcept({"san"})

Clean ==
    /\ mode = "sanitize"
    /\ mode' = "cleaned"
    /\ sanOut' = Some(_validate_and_clean_attendance_data(sanIn[1]))
    /\ UNCHANGED <<sanIn, sanOut2, notSanVars>>

CleanAgain ==
    /\ mode = "cleaned"
    /\ mode' = "cleaned_twice"
    /\ sanOut2' = Some(_validate_and_clean_attendance_data(sanOut[1]))
    /\ UNCHANGED <<sanIn, sanOut, notSanVars>>

SanNext == Clean \/ CleanAgain

SpecSanitize == SanInit /\ [][SanNext]_vars

\* C7: applying _validate_and_clean_attendance_data to its own output returns
\* a result equal to that output (same records, same order, same values).
C7_SanitizerIdempotent == mode = "cleaned_twice" => sanOut2 = sanOut

\* two records went in, one was dropped, the other had its padded time and its
\* unknown status rewritten, and the second pass ran
C7_Witness ==
    /\ mode = "cleaned_twice"
    /\ Len(sanIn[1].daily_records) = 2
    /\ Len(sanOut[1].daily_records) = 1
    /\ sanOut[1].daily_records[1].times = [clock_in |-> T_0900, clock_out |-> T_1830]
    /\ sanOut[1].daily_records[1].status.clock_out_status = "Normal"
    /\ sanIn[1].daily_records[1].times.clock_out = T_1830_padded


(***************************************************************************)
(* The month model (models.py).  A DailyAttendance is                      *)
(*   [date, day_of_week, day_type, clock_in, clock_out, is_confirmed]      *)
(* with clock_in and clock_out ClockRecords [time, status].                *)
(***************************************************************************)
\* "sum(1 for day in self.data if ...)": flags[i] is the condition on day i
Count(flags) == Cardinality({i \in DOMAIN flags : flags[i]})

\* MonthlyAttendance._calculate_statistics over the list of days
_calculate_statistics(days) ==
    [total_days |-> Len(days),
     work_days |-> Count([i \in DOMAIN days |-> days[i].day_type = "Workday"]),
     rest_days |-> Count([i \in DOMAIN days |-> days[i].day_type = "RestDay"]),
     holiday_days |-> Count([i \in DOMAIN days |-> days[i].day_type = "Holiday"]),
     normal_clock_in |-> Count([i \in DOMAIN days |-> days[i].clock_in.status = "Normal"]),
     abnormal_clock_in |-> Count([i \in DOMAIN days |-> days[i].clock_in.status = "Abnormal"]),
     normal_clock_out |-> Count([i \in DOMAIN days |-> days[i].clock_out.status = "Normal"]),
     abnormal_clock_out |-> Count([i \in DOMAIN days |-> days[i].clock_out.status = "Abnormal"]),
     confirmed_days |-> Count([i \in DOMAIN days |-> days[i].is_confirmed])]

(***************************************************************************)
(* _build_monthly_attendance (controllers/main_controller.py).  today is   *)
(* datetime.now() as <<year, month>>, config the content of                *)
(* config/holidays.json, which reset_workday_calculator() and              *)
(* get_day_type() load anew for every day.                                 *)
(***************************************************************************)
weekdays == <<"ZhouYi", "ZhouEr", "ZhouSan", "ZhouSi", "ZhouWu", "ZhouLiu", "ZhouRi">>

DayData_first_wins(records, day) ==
    LET claims == {i \in 1..Len(records) :
                      "day" \in DOMAIN records[i] /\ records[i].day = day}
    IN  IF claims = {} THEN <<>>
        ELSE records[CHOOSE i \in claims : \A j \in claims : i <= j]

\* daily_data_map.get(day, {}): the last record that claims the day
DayData(records, day) ==
    LET claims == {i \in 1..Len(records) :
                      "day" \in DOMAIN records[i] /\ records[i].day = day}
    IN  IF claims = {} THEN <<>>
        ELSE records[CHOOSE i \in claims : \A j \in claims : j <= i]

\* whether building the day raises: .strip() on a value that is not a str,
\* or ClockRecord.__post_init__ on a status that is not canonical
DayRaises(day_data) ==
    LET times == Get(day_data, "times", <<>>)
        status == Get(day_data, "status", <<>>)
    IN  \/ Get(times, "clock_in", <<>>) = NotAStr
        \/ Get(times, "clock_out", <<>>) = NotAStr
        \/ Get(status, "clock_in_status", "NotClocked") \notin CanonicalStatuses
        \/ Get(status, "clock_out_status", "NotClocked") \notin CanonicalStatuses

days_in_month_always_31(year, month) == 31

\* calendar.monthrange(year, month)[1]
days_in_month(year, month) == DaysInMonth(year, month)

BuildDay_no_promotion(year, month, day, day_data, config) ==
    LET date_str == <<year, month, day>>
        cal == NewWorkdayCalculator(config)
        times == Get(day_data, "times", <<>>)
        status == Get(day_data, "status", <<>>)
    IN  [date |-> date_str,
         day_of_week |-> weekdays[Weekday(date_str) + 1],
         day_type |-> get_day_type(cal.holidays, cal.workdays_override, date_str),
         clock_in |-> [time |-> Strip(Get(times, "clock_in", <<>>)),
                       status |-> Get(status, "clock_in_status", "NotClocked")],
         clock_out |-> [time |-> Strip(Get(times, "clock_out", <<>>)),
                        status |-> Get(status, "clock_out_status", "NotClocked")],
         is_confirmed |-> FALSE]

\* the DailyAttendance of one day of the loop
BuildDay(year, month, day, day_data, config) ==
    LET date_str == <<year, month, day>>
        cal == NewWorkdayCalculator(config)
        times == Get(day_data, "times", <<>>)
        status == Get(day_data, "status", <<>>)
        clock_in_time == Strip(Get(times, "clock_in", <<>>))
        clock_out_time == Strip(Get(times, "clock_out", <<>>))
        clock_in_status == Get(status, "clock_in_status", "NotClocked")
        clock_out_status == Get(status, "clock_out_status", "NotClocked")
    IN  [date |-> date_str,
         day_of_week |-> weekdays[Weekday(date_str) + 1],
         day_type |-> get_day_type(cal.holidays, cal.workdays_override, date_str),
         clock_in |-> [time |-> clock_in_time,
                       status |-> IF clock_in_time # <<>> /\ clock_in_status = "NotClocked"
                                  THEN "Normal" ELSE clock_in_status],
         clock_out |-> [time |-> clock_out_time,
                        status |-> IF clock_out_time # <<>> /\ clock_out_status = "NotClocked"
                                   THEN "Normal" ELSE clock_out_status],
         is_confirmed |-> FALSE]

_build_monthly_attendance_january_default(attendance_data, today, config) ==
    LET year_month == IF attendance_data.year_month = None THEN <<today[1], 1>>
                      ELSE attendance_data.year_month[1]
        records == attendance_data.daily_records
        n == days_in_month(year_month[1], year_month[2])
    IN  IF \E day \in 1..n : DayRaises(DayData(records, day)) THEN None
        ELSE Some([year_month |-> year_month,
                   days |-> [day \in 1..n |->
                               BuildDay(year_month[1], year_month[2], day,
                                        DayData(records, day), config)]])

\* None when it raises, else Some([year_month, days]): the arguments of the
\* MonthlyAttendance constructor
_build_monthly_attendance(attendance_data, today, config) ==
    LET year_month == IF attendance_data.year_month = None THEN today
                      ELSE attendance_data.year_month[1]
        year == year_month[1]
        month == year_month[2]
        records == attendance_data.daily_records
        n == days_in_month(year, month)
    IN  IF \E day \in 1..n : DayRaises(DayData(records, day)) THEN None
        ELSE Some([year_month |-> year_month,
                   days |-> [day \in 1..n |->
                               BuildDay(year, month, day, DayData(records, day), config)]])


(***************************************************************************)
(* MonthlyAttendance and MainController as objects.  data holds            *)
(* references: an entry of data is the id of a DailyAttendance in heap, so *)
(* that an in-place mutation shows through every entry that refers to it.  *)
(***************************************************************************)
\* the DailyAttendance values of a month, in list order
Days(month, hp) == [i \in 1..Len(month.data) |-> hp[month.data[i]]]

\* objects no entry of data refers to are dropped
Collect(hp, data) ==
    [id \in {data[i] : i \in 1..Len(data)} |-> hp[id]]

FreshId(hp) == CHOOSE id \in 1..(Cardinality(DOMAIN hp) + 1) : id \notin DOMAIN hp

Matches_first_if_none(month, hp, date) ==
    IF {i \in 1..Len(month.data) : hp[month.data[i]].date = date} = {} THEN {1}
    ELSE {i \in 1..Len(month.data) : hp[month.data[i]].date = date}

\* the indexes of the entries dated date
Matches(month, hp, date) == {i \in 1..Len(month.data) : hp[month.data[i]].date = date}

\* MonthlyAttendance(year_month, data).__post_init__
NewMonth(year_month, data, hp) ==
    [year_month |-> year_month, data |-> data,
     statistics |-> _calculate_statistics([i \in 1..Len(data) |-> hp[data[i]]])]

update_day_no_recount(month, hp, date, ref) ==
    [month EXCEPT !.data[SetMin(Matches(month, hp, date))] = ref]

\* MonthlyAttendance.update_day(date, updated_day) when date is found, with
\* updated_day the object ref and hp the heap at the call
update_day(month, hp, date, ref) ==
    LET data == [month.data EXCEPT ![SetMin(Matches(month, hp, date))] = ref]
    IN  NewMonth(month.year_month, data, hp)

\* "day.<field> = value" of update_attendance_record
SetField(day, field, value) ==
    IF field = "clock_in_time" THEN [day EXCEPT !.clock_in.time = value]
    ELSE IF field = "clock_out_time" THEN [day EXCEPT !.clock_out.time = value]
    ELSE IF field = "clock_in_status" THEN [day EXCEPT !.clock_in.status = value]
    ELSE IF field = "clock_out_status" THEN [day EXCEPT !.clock_out.status = value]
    ELSE IF field = "day_type" THEN [day EXCEPT !.day_type = value]
    ELSE day

Called(op, args, ok) ==
    /\ lastOp' = Some([op |-> op, args |-> args, ok |-> ok])
    /\ opCount' = opCount + 1

\* MainController.process_raw_attendance_data(raw_data)
process_raw_attendance_data(raw_data) ==
    /\ opCount < MaxOps
    /\ \E built \in {_build_monthly_attendance(
                        _validate_and_clean_attendance_data(raw_data), now, configFile)} :
           IF built = None
           THEN /\ Called("process_raw_attendance_data", <<raw_data>>, FALSE)
                /\ UNCHANGED <<current_data, heap>>
           ELSE /\ heap' = built[1].days
                /\ current_data' = Some(NewMonth(built[1].year_month,
                                                 [i \in 1..Len(built[1].days) |-> i],
                                                 heap'))
                /\ Called("process_raw_attendance_data", <<raw_data>>, TRUE)
    /\ UNCHANGED <<mode, configFile, now, notCtlVars>>

\* MainController.update_attendance_record(date, field, value)
update_attendance_record(date, field, value) ==
    /\ opCount < MaxOps
    /\ IF current_data = None \/ Matches(current_data[1], heap, date) = {}
       THEN /\ Called("update_attendance_record", <<date, field, value>>, FALSE)
            /\ UNCHANGED <<current_data, heap>>
       ELSE \E ref \in {current_data[1].data[SetMin(Matches(current_data[1], heap, date))]} :
            \E hp \in {[heap EXCEPT ![ref] = SetField(heap[ref], field, value)]} :
            \E month \in {update_day(current_data[1], hp, date, ref)} :
                /\ heap' = Collect(hp, month.data)
                /\ current_data' = Some(month)
                /\ Called("update_attendance_record", <<date, field, value>>, TRUE)
    /\ UNCHANGED <<mode, configFile, now, notCtlVars>>

Confirmed_and_normal(day) ==
    [day EXCEPT !.is_confirmed = TRUE, !.clock_in.status = "Normal"]

\* "day.is_confirmed = True"
Confirmed(day) == [day EXCEPT !.is_confirmed = TRUE]

\* MainController.confirm_attendance(date)
confirm_attendance(date) ==
    /\ opCount < MaxOps
    /\ IF current_data = None \/ Matches(current_data[1], heap, date) = {}
       THEN /\ Called("confirm_attendance", <<date>>, FALSE)
            /\ UNCHANGED <<current_data, heap>>
       ELSE \E ref \in {current_data[1].data[SetMin(Matches(current_data[1], heap, date))]} :
            \E hp \in {[heap EXCEPT ![ref] = Confirmed(heap[ref])]} :
            \E month \in {update_day(current_data[1], hp, date, ref)} :
                /\ heap' = Collect(hp, month.data)
                /\ current_data' = Some(month)
                /\ Called("confirm_attendance", <<date>>, TRUE)
    /\ UNCHANGED <<mode, configFile, now, notCtlVars>>

\* current_data.get_day(date): ok is FALSE when it raises ValueError
get_day(date) ==
    /\ opCount < MaxOps
    /\ current_data # None
    /\ Called("get_day", <<date>>, Matches(current_data[1], heap, date) # {})
    /\ UNCHANGED <<current_data, heap, mode, configFile, now, notCtlVars>>

\* current_data.update_day(date, updated_day) with updated_day an object
\* that data already holds (its index in data is given)
UpdateDayWithHeld(date, index) ==
    /\ opCount < MaxOps
    /\ current_data # None
    /\ index \in 1..Len(current_data[1].data)
    /\ IF Matches(current_data[1], heap, date) = {}
       THEN /\ Called("update_day", <<date, heap[current_data[1].data[index]]>>, FALSE)
            /\ UNCHANGED <<current_data, heap>>
       ELSE \E month \in {update_day(current_data[1], heap, date, current_data[1].data[index])} :
                /\ heap' = Collect(heap, month.data)
                /\ current_data' = Some(month)
                /\ Called("update_day", <<date, heap[current_data[1].data[index]]>>, TRUE)
    /\ UNCHANGED <<mode, configFile, now, notCtlVars>>

\* current_data.update_day(date, updated_day) with updated_day a new object
UpdateDayWithNew(date, updated_day) ==
    /\ opCount < MaxOps
    /\ current_data # None
    /\ IF Matches(current_data[1], heap, date) = {}
       THEN /\ Called("update_day", <<date, updated_day>>, FALSE)
            /\ UNCHANGED <<current_data, heap>>
       ELSE \E ref \in {FreshId(heap)} :
            \E hp \in {[id \in DOMAIN heap \cup {ref} |->
                          IF id = ref THEN updated_day ELSE heap[id]]} :
            \E month \in {update_day(current_data[1], hp, date, ref)} :
                /\ heap' = Collect(hp, month.data)
                /\ current_data' = Some(month)
                /\ Called("update_day", <<date, updated_day>>, TRUE)
    /\ UNCHANGED <<mode, configFile, now, notCtlVars>>


(***************************************************************************)
(* The assembler specification: process_raw_attendance_data is called once *)
(* on drawn data, under a drawn holiday file.                              *)
(***************************************************************************)
MonthConfigs ==
    { MissingConfig,
      JsonConfig(<< [year |-> Some(2024),
                     holidays |-> Some({<<2024, 2, 3>>, <<2024, 2, 4>>, <<2024, 2, 12>>}),
                     workdays |-> Some({<<2024, 2, 4>>, <<2024, 2, 17>>})] >>) }

\* raw records that claim the last days of a month
LateDayRecords ==
    { RawRecord(29, T_0900, T_1830, "Normal", "Abnormal"),
      RawRecord(30, <<>>, T_1830_padded, "Abnormal", "NotClocked"),
      RawRecord(31, T_9_5, <<>>, "late", "Normal") }

BuildRecordPool ==
    LateDayRecords \cup
    { RawRecord(5, T_0900, T_1830_padded, "NotClocked", "late"),
      RawRecord(5, T_9_5, <<>>, "late", "late"),
      RawRecord(31, T_2500, T_1260, "late", "Abnormal"),
      [day |-> 9] }

YearMonths == {<<2024, 2>>, <<2025, 2>>, <<2025, 9>>, <<2025, 12>>}

BuildInit ==
    /\ mode = "build"
    /\ current_data = None
    /\ heap = <<>>
    /\ configFile \in MonthConfigs
    /\ now = <<2026, 11>>
    /\ lastOp = None
    /\ opCount = 0
    /\ IdleExcept({"ctl"})

BuildNext ==
    \E ym \in {None} \cup {Some(x) : x \in YearMonths},
       rs \in SeqsUpTo(BuildRecordPool, MaxBuildRecords) :
        /\ mode = "build"
        /\ opCount = 0
        /\ process_raw_attendance_data([year_month |-> ym, daily_records |-> rs])

SpecBuild == BuildInit /\ [][BuildNext]_vars

\* the year and month the assembler resolves for the data last processed
C3_YearMonth ==
    IF lastOp[1].args[1].year_month = None THEN now ELSE lastOp[1].args[1].year_month[1]

\* the lengths of the months, as calendar facts
C3_MonthLength ==
    IF C3_YearMonth = <<2024, 2>> THEN 29
    ELSE IF C3_YearMonth = <<2025, 2>> THEN 28
    ELSE IF C3_YearMonth \in {<<2025, 9>>, <<2026, 11>>} THEN 30
    ELSE 31

\* C3: for every valid year-month and every list of sanitized daily records
\* (the empty list and day numbers beyond the month's length included),
\* _build_monthly_attendance returns a month whose data has exactly
\* days_in_month entries, the i-th dated day i of that month.
C3_OneEntryPerDay ==
    lastOp # None =>
        /\ lastOp[1].ok
        /\ current_data # None
        /\ current_data[1].year_month = C3_YearMonth
        /\ Len(current_data[1].data) = C3_MonthLength
        /\ \A i \in 1..Len(current_data[1].data) :
              heap[current_data[1].data[i]].date = <<C3_YearMonth[1], C3_YearMonth[2], i>>

\* February 2025 was assembled from records that claim day 5 and day 31
C3_Witness ==
    /\ lastOp # None
    /\ lastOp[1].args[1].year_month = Some(<<2025, 2>>)
    /\ Len(lastOp[1].args[1].daily_records) = 2
    /\ lastOp[1].args[1].daily_records[1].day = 31
    /\ lastOp[1].args[1].daily_records[2].day = 5
    /\ lastOp[1].ok
    /\ Len(current_data[1].data) = 28
    /\ heap[current_data[1].data[5]].clock_in.time # <<>>


\* the records _build_monthly_attendance was given: the sanitized ones
C15_Records == _validate_and_clean_attendance_data(lastOp[1].args[1]).daily_records

\* the indexes of those that claim the day
C15_Candidates(day) == {k \in DOMAIN C15_Records : C15_Records[k].day = day}

\* the candidate of the day: the last of them
C15_Candidate(day) ==
    C15_Records[CHOOSE k \in C15_Candidates(day) : \A j \in C15_Candidates(day) : j <= k]

\* the clock record built from a candidate's time and status
C15_Slot(time, status) ==
    [time |-> time,
     status |-> IF time # <<>> /\ status = "NotClocked" THEN "Normal" ELSE status]

\* C15: in every month produced by _build_monthly_attendance, a day with no
\* candidate record has empty clock-in and clock-out times with NotClocked
\* statuses; a day with a candidate has the candidate's times and statuses,
\* except that a slot with a non-empty time and NotClocked becomes Normal;
\* no clock record has a non-empty time together with NotClocked; and
\* is_confirmed is false for every day.
C15_DefaultsAndPromotion ==
    lastOp # None /\ lastOp[1].ok =>
        \A day \in 1..Len(current_data[1].data) :
            LET built == heap[current_data[1].data[day]]
            IN  /\ built.is_confirmed = FALSE
                /\ ~(built.clock_in.time # <<>> /\ built.clock_in.status = "NotClocked")
                /\ ~(built.clock_out.time # <<>> /\ built.clock_out.status = "NotClocked")
                /\ IF C15_Candidates(day) = {}
                   THEN /\ built.clock_in = [time |-> <<>>, status |-> "NotClocked"]
                        /\ built.clock_out = [time |-> <<>>, status |-> "NotClocked"]
                   ELSE /\ built.clock_in =
                              C15_Slot(C15_Candidate(day).times.clock_in,
                                       C15_Candidate(day).status.clock_in_status)
                        /\ built.clock_out =
                              C15_Slot(C15_Candidate(day).times.clock_out,
                                       C15_Candidate(day).status.clock_out_status)

\* day 30 of September 2025 has a candidate with no clock-in time and
\* Abnormal, and 18:30 with NotClocked for the clock-out: the first is kept,
\* the second became Normal; day 29 has no candidate
C15_Witness ==
    /\ lastOp # None
    /\ lastOp[1].ok
    /\ lastOp[1].args[1].year_month = Some(<<2025, 9>>)
    /\ C15_Candidates(30) # {}
    /\ C15_Candidate(30).status.clock_out_status = "NotClocked"
    /\ C15_Candidate(30).times.clock_out = T_1830
    /\ heap[current_data[1].data[30]].clock_in = [time |-> <<>>, status |-> "Abnormal"]
    /\ heap[current_data[1].data[30]].clock_out = [time |-> T_1830, status |-> "Normal"]
    /\ C15_Candidates(29) = {}
    /\ heap[current_data[1].data[29]].clock_in = [time |-> <<>>, status |-> "NotClocked"]


(***************************************************************************)
(* The month specification: a month is assembled, then update_day,         *)
(* update_attendance_record and confirm_attendance are called in any       *)
(* order, with dates inside and outside the month, known and unknown       *)
(* fields, canonical and other values, and replacement records that carry  *)
(* the date asked for or another one.                                      *)
(***************************************************************************)
Feb01 == <<2024, 2, 1>>
Feb03 == <<2024, 2, 3>>
Mar01 == <<2024, 3, 1>>

MonthInputs ==
    { [year_month |-> Some(<<2024, 2>>),
       daily_records |-> << RawRecord(1, T_0900, T_1830, "Normal", "Abnormal"),
                            RawRecord(3, T_9_5, <<>>, "Abnormal", "NotClocked") >>] }

TargetDates == {Feb01, Feb03, Mar01}

TimeUpdates == {<<"clock_in_time", T_1830>>, <<"clock_out_time", <<>>>>}

TextUpdates ==
    {<<"clock_in_status", "late">>, <<"clock_out_status", "Normal">>,
     <<"day_type", "Holiday">>, <<"remark", "Normal">>}

\* DailyAttendance objects made by the caller of update_day
ReplacementDays ==
    { [date |-> d, day_of_week |-> "ZhouSi", day_type |-> "RestDay",
       clock_in |-> [time |-> T_0900, status |-> "Abnormal"],
       clock_out |-> [time |-> <<>>, status |-> "NotClocked"],
       is_confirmed |-> TRUE] : d \in {Feb01, Feb03, Mar01} }

MonthInit ==
    /\ mode = "month"
    /\ current_data = None
    /\ heap = <<>>
    /\ configFile \in MonthConfigs
    /\ now = <<2026, 11>>
    /\ lastOp = None
    /\ opCount = 0
    /\ IdleExcept({"ctl"})

MonthNext ==
    \/ \E raw_data \in MonthInputs :
          mode = "month" /\ process_raw_attendance_data(raw_data)
    \/ \E date \in TargetDates, u \in TimeUpdates :
          mode = "month" /\ update_attendance_record(date, u[1], u[2])
    \/ \E date \in TargetDates, u \in TextUpdates :
          mode = "month" /\ update_attendance_record(date, u[1], u[2])
    \/ \E date \in TargetDates :
          mode = "month" /\ confirm_attendance(date)
    \/ \E date \in TargetDates, index \in {1, 3} :
          mode = "month" /\ UpdateDayWithHeld(date, index)
    \/ \E date \in TargetDates, updated_day \in ReplacementDays :
          mode = "month" /\ UpdateDayWithNew(date, updated_day)
    \/ \E date \in TargetDates :
          mode = "month" /\ get_day(date)

SpecMonth == MonthInit /\ [][MonthNext]_vars

\* C4: after any sequence of update_day, update_attendance_record and
\* confirm_attendance calls on an assembled month, data holds exactly one
\* DailyAttendance per calendar day of year_month, in ascending date order.
C4_OneEntryPerDayKept ==
    current_data # None =>
        LET ym == current_data[1].year_month
        IN  /\ Len(current_data[1].data) = DaysInMonth(ym[1], ym[2])
            /\ \A i \in 1..Len(current_data[1].data) :
                  heap[current_data[1].data[i]].date = <<ym[1], ym[2], i>>

\* the number of entries of the current data list that satisfy a predicate,
\* counted entry by entry
C5_Tally(flags) == Cardinality({i \in DOMAIN flags : flags[i]})

C5_Data == [i \in 1..Len(current_data[1].data) |-> heap[current_data[1].data[i]]]

\* C5: in every state reached by constructing a MonthlyAttendance and then
\* calling update_day, update_attendance_record and confirm_attendance in any
\* order, each of the nine counts in statistics equals the tally of its
\* predicate over the current data list.
C5_StatisticsAreTallies ==
    current_data # None =>
        LET st == current_data[1].statistics
            d == C5_Data
        IN  /\ st.total_days = Len(d)
            /\ st.work_days = C5_Tally([i \in DOMAIN d |-> d[i].day_type = "Workday"])
            /\ st.rest_days = C5_Tally([i \in DOMAIN d |-> d[i].day_type = "RestDay"])
            /\ st.holiday_days = C5_Tally([i \in DOMAIN d |-> d[i].day_type = "Holiday"])
            /\ st.normal_clock_in = C5_Tally([i \in DOMAIN d |-> d[i].clock_in.status = "Normal"])
            /\ st.abnormal_clock_in = C5_Tally([i \in DOMAIN d |-> d[i].clock_in.status = "Abnormal"])
            /\ st.normal_clock_out = C5_Tally([i \in DOMAIN d |-> d[i].clock_out.status = "Normal"])
            /\ st.abnormal_clock_out = C5_Tally([i \in DOMAIN d |-> d[i].clock_out.status = "Abnormal"])
            /\ st.confirmed_days = C5_Tally([i \in DOMAIN d |-> d[i].is_confirmed])

\* 1 February, the only day clocked in normally, was given another clock-in
\* status after a confirmation: the counts moved with the data
C5_Witness ==
    /\ current_data # None
    /\ opCount = 3
    /\ lastOp[1].op = "update_attendance_record"
    /\ lastOp[1].ok
    /\ lastOp[1].args[1] = Feb01
    /\ lastOp[1].args[2] = "clock_in_status"
    /\ current_data[1].statistics.normal_clock_in = 0
    /\ current_data[1].statistics.confirmed_days = 1
    /\ current_data[1].statistics.total_days = 29

\* C6: in every reachable state of the controller's current month, every
\* ClockRecord has one of the three canonical statuses, also after
\* update_attendance_record was called on a status field with any value.
C6_StatusAlwaysCanonical ==
    current_data # None =>
        \A i \in 1..Len(current_data[1].data) :
            /\ heap[current_data[1].data[i]].clock_in.status \in CanonicalStatuses
            /\ heap[current_data[1].data[i]].clock_out.status \in CanonicalStatuses


(***************************************************************************)
(* Year-month extraction from the picture's regions                        *)
(* (services/ocr_service.py, controllers/main_controller.py).  A region    *)
(* is None when recognize_text raises on it, else Some(texts).             *)
(***************************************************************************)
\* extract_date_info: year_month_patterns, in list order
date_info_patterns == <<"nian_yue", "nian_0_yue", "nian_yue_spaced", "-", ".", "/">>

\* the fragment-by-fragment phase of extract_date_info
RECURSIVE FirstFragmentMatch(_, _)
FirstFragmentMatch(patterns, text_results) ==
    IF text_results = <<>> THEN None
    ELSE LET m == FirstSaneMatch(patterns, Head(text_results))
         IN  IF m # None THEN m ELSE FirstFragmentMatch(patterns, Tail(text_results))

\* OCRService.extract_date_info(text_results), its 'year' and 'month' keys:
\* None, or Some(<<year, month>>).  Its 'day' and 'weekday' keys are read by
\* no caller in the controller.
extract_date_info(text_results) ==
    LET combined == FirstSaneMatch(date_info_patterns, Join(text_results))
    IN  IF combined # None THEN combined
        ELSE FirstFragmentMatch(date_info_patterns, text_results)

\* MainController._extract_year_month_from_header
_extract_year_month_from_header(region) ==
    IF region = None THEN None ELSE extract_date_info(region[1])

\* _extract_year_month_from_all_texts: its looser patterns
loose_patterns == <<"nian_yue", "nian_yue_spaced", "-", ".", "/", "yyyymm">>

\* MainController._extract_year_month_from_all_texts
_extract_year_month_from_all_texts(region) ==
    IF region = None THEN None
    ELSE IF extract_date_info(region[1]) # None THEN extract_date_info(region[1])
    ELSE FirstSaneMatch(loose_patterns, Join(region[1]))


(***************************************************************************)
(* _extract_attendance_data (controllers/main_controller.py), statement by *)
(* statement.  A cell is [row, col, width, height, image, texts, dots]:    *)
(* image is what extract_cell_image does on it ("ok", "raises", or "empty" *)
(* for no image or an empty one), texts what recognize_text reads in the   *)
(* cell's image and dots the colors of the dots detect_dots finds in it,   *)
(* each None when the call raises.                                         *)
(***************************************************************************)
\* sorted(rows[row_idx], key=lambda c: c.col) over the cells at the indexes I:
\* a stable sort
RECURSIVE SortByCol(_, _)
SortByCol(cell_list, I) ==
    IF I = {} THEN <<>>
    ELSE LET first == CHOOSE i \in I : \A j \in I :
                          \/ cell_list[i].col < cell_list[j].col
                          \/ cell_list[i].col = cell_list[j].col /\ i <= j
         IN  <<cell_list[first]>> \o SortByCol(cell_list, I \ {first})

\* MainController._group_cells_by_row: the k-th row is the one whose key has
\* k - 1 smaller keys ("for row_idx in sorted(rows.keys())")
_group_cells_by_row(cell_list) ==
    LET row_keys == {cell_list[i].row : i \in DOMAIN cell_list}
    IN  [k \in 1..Cardinality(row_keys) |->
            SortByCol(cell_list,
                      {i \in DOMAIN cell_list :
                          Cardinality({r \in row_keys : r < cell_list[i].row}) = k - 1})]

\* "for row_idx, row_cells in enumerate(rows): for cell in row_cells": the
\* visits of the loop, in order
RECURSIVE Visits(_, _)
Visits(rows, row_idx) ==
    IF rows = <<>> THEN <<>>
    ELSE [j \in 1..Len(Head(rows)) |-> <<row_idx, Head(rows)[j]>>]
         \o Visits(Tail(rows), row_idx + 1)

\* "max_cells_to_process = 100"
max_cells_to_process == 100

LimitReached_never(count) == FALSE

\* "if processed_count >= max_cells_to_process: break"
LimitReached(count) == count >= max_cells_to_process

\* the size checks that make the loop skip a cell
SizeSkipped(cell) ==
    cell.width < 10 \/ cell.height < 10 \/ cell.width > 1000 \/ cell.height > 1000

year_month_last_header_wins(current, found) == found

\* "if not attendance_data['year_month']: attendance_data['year_month'] = ..."
year_month_if_missing(current, found) ==
    IF current = None THEN found ELSE current

\* "if cell_data: ..." of the loop body: attendance_data after the cell
Collected(data, cell_data) ==
    IF cell_data = None THEN data
    ELSE IF cell_data[1].type = "header" /\ cell_data[1].year_month # None
    THEN [data EXCEPT !.year_month = year_month_if_missing(@, cell_data[1].year_month)]
    ELSE IF cell_data[1].type = "daily"
    THEN [data EXCEPT !.daily_records = Append(@, cell_data[1])]
    ELSE data

\* the statements before the loop
StartExtraction ==
    /\ mode = "extract"
    /\ mode' = "cells"
    /\ \E rows \in {_group_cells_by_row(detected_cells)} : pending' = Visits(rows, 0)
    /\ consulted' = <<"top_left">>
    /\ extraction' = Some([year_month |->
                               _extract_year_month_from_header(original_image[1].top_left),
                           daily_records |-> <<>>])
    /\ processed_count' = 0
    /\ recognized' = <<>>
    /\ UNCHANGED <<original_image, detected_cells, notExVars>>

AfterCellFailure_break(rest) == <<>>

\* "except Exception as cell_e: ... continue": the visits left after a cell
\* whose processing raised
AfterCellFailure(rest) == rest

\* one pass through the loop body
ProcessCell ==
    /\ mode = "cells"
    /\ pending # <<>>
    /\ ~LimitReached(processed_count)
    /\ pending' = IF ~SizeSkipped(Head(pending)[2]) /\ Head(pending)[2].image = "raises"
                  THEN AfterCellFailure(Tail(pending))
                  ELSE Tail(pending)
    /\ LET row_idx == Head(pending)[1]
           cell == Head(pending)[2]
           texts == IF cell.texts = None THEN <<>> ELSE cell.texts[1]
           dots == IF cell.dots = None THEN <<>> ELSE cell.dots[1]
       IN  IF SizeSkipped(cell) \/ cell.image # "ok"
           THEN UNCHANGED <<extraction, processed_count, recognized>>
           ELSE \E cell_data \in {_parse_cell_content(texts, dots, row_idx, cell.col)} :
                /\ recognized' = Append(recognized, <<cell.row, cell.col>>)
                /\ extraction' = Some(Collected(extraction[1], cell_data))
                /\ processed_count' = processed_count + 1
    /\ UNCHANGED <<mode, original_image, detected_cells, consulted, notExVars>>

\* the loop ends: no cell is left, or the limit is reached
EndLoop ==
    /\ mode = "cells"
    /\ pending = <<>> \/ LimitReached(processed_count)
    /\ mode' = "fallback"
    /\ UNCHANGED <<original_image, detected_cells, extraction, pending,
                   processed_count, consulted, recognized, notExVars>>

\* the statements after the loop
FinishExtraction ==
    /\ mode = "fallback"
    /\ mode' = "extracted"
    /\ IF extraction[1].year_month = None
       THEN /\ consulted' = Append(consulted, "whole_image")
            /\ extraction' = Some([extraction[1] EXCEPT !.year_month =
                                 _extract_year_month_from_all_texts(original_image[1].whole)])
       ELSE UNCHANGED <<consulted, extraction>>
    /\ UNCHANGED <<original_image, detected_cells, pending, processed_count,
                   recognized, notExVars>>

(***************************************************************************)
(* The extraction specification: a picture and its detected cells are      *)
(* drawn, then _extract_attendance_data runs on them.                      *)
(***************************************************************************)
CellImage(width, image, texts, dots) ==
    [width |-> width, height |-> 40, image |-> image, texts |-> texts, dots |-> dots]

CellSamples ==
    { CellImage(80, "ok", Some(<< <<"2", "0", "2", "5", "nian", "0", "9", "yue">> >>), Some(<<>>)),
      CellImage(80, "ok", Some(<< <<"2", "0", "2", "5", "-", "1", "0">> >>), Some(<<>>)),
      CellImage(8, "ok", Some(<< <<"2", "0", "2", "5", "-", "1", "2">> >>), Some(<<>>)),
      CellImage(80, "empty", Some(<< <<"2", "0", "2", "6", "/", "0", "2">> >>), Some(<<>>)),
      CellImage(80, "ok", Some(<< <<"kao", "qin">> >>), Some(<<>>)),
      CellImage(80, "ok", Some(<< <<"1", "5", "ri">>, <<"9", ":", "0", "5">> >>),
                Some(<<"green", "gray">>)) }

\* the cells of a grid of two columns, in row-major order: <<row, col>>
GridPosition(i) == <<(i - 1) \div 2, (i - 1) % 2>>

\* the grid position of the i-th of k detected cells: detect_table_cells
\* returns the cells in ascending y, here the right cell of a row before the
\* left one
DetectedPosition(k, i) ==
    IF i % 2 = 1 /\ i + 1 <= k THEN GridPosition(i + 1)
    ELSE IF i % 2 = 0 THEN GridPosition(i - 1)
    ELSE GridPosition(i)

Placed(image, position) ==
    [row |-> position[1], col |-> position[2], width |-> image.width,
     height |-> image.height, image |-> image.image,
     texts |-> image.texts, dots |-> image.dots]

TopLeftSamples == {None, Some(<<>>), Some(<< <<"2", "0", "2", "6", ".", "1">> >>)}

WholeSamples ==
    {None, Some(<< <<"kao", "qin">>, <<"1", "5", "ri">> >>),
     Some(<< <<"kao", "qin">>, <<"2", "0", "2", "5", "1", "1">> >>)}

ExtractInit ==
    /\ mode = "extract"
    /\ original_image \in {Some([top_left |-> a, whole |-> b]) :
                              a \in TopLeftSamples, b \in WholeSamples}
    /\ detected_cells \in UNION {
           {[i \in 1..k |-> Placed(images[i], DetectedPosition(k, i))] :
               images \in [1..k -> CellSamples]} : k \in 1..MaxCells}
    /\ extraction = None
    /\ pending = <<>>
    /\ processed_count = 0
    /\ consulted = <<>>
    /\ recognized = <<>>
    /\ IdleExcept({"ex"})

ExtractNext == StartExtraction \/ ProcessCell \/ EndLoop \/ FinishExtraction

SpecExtract == ExtractInit /\ [][ExtractNext]_vars


\* whether the loop parses the cell: its size is accepted and its image is
\* not empty
C10_Parsed(cell) == ~SizeSkipped(cell) /\ cell.image = "ok"

\* the year-month of the header the cell's texts parse to, None without one
C10_CellYearMonth(cell) ==
    LET cell_data == _parse_cell_content(IF cell.texts = None THEN <<>> ELSE cell.texts[1],
                                         IF cell.dots = None THEN <<>> ELSE cell.dots[1],
                                         cell.row, cell.col)
    IN  IF cell_data # None /\ cell_data[1].type = "header" THEN cell_data[1].year_month
        ELSE None

\* the detected cells that yield a header with a year-month
C10_Yielding ==
    {i \in DOMAIN detected_cells :
        C10_Parsed(detected_cells[i]) /\ C10_CellYearMonth(detected_cells[i]) # None}

\* the first of them in row-major order
C10_FirstYielding ==
    detected_cells[CHOOSE i \in C10_Yielding : \A j \in C10_Yielding :
        \/ detected_cells[i].row < detected_cells[j].row
        \/ /\ detected_cells[i].row = detected_cells[j].row
           /\ detected_cells[i].col <= detected_cells[j].col]

C10_TopLeft == _extract_year_month_from_header(original_image[1].top_left)

C10_Whole == _extract_year_month_from_all_texts(original_image[1].whole)

C10_Consulted(region) == \E i \in DOMAIN consulted : consulted[i] = region

\* C10 as stated: when at least one grid cell yields a header with a
\* year-month, the result's year_month is that of the first such cell in
\* row-major order; the top-left region is read only when no cell yielded
\* one, and the whole image only when the top-left region also failed.
C10_CellHeaderBeforeFallbacks ==
    mode = "extracted" =>
        /\ C10_Yielding # {} =>
              extraction[1].year_month = C10_CellYearMonth(C10_FirstYielding)
        /\ C10_Consulted("top_left") => C10_Yielding = {}
        /\ C10_Consulted("whole_image") => C10_Yielding = {} /\ C10_TopLeft = None

\* C10, amended: the top-left region is read first, before any cell, and its
\* year-month is the result when it yields one; otherwise the result is the
\* year-month of the first parsed cell in row-major order that yields a
\* header with one; the whole image is read exactly when neither the top-left
\* region nor any cell yielded one, and then decides the result.
C10_TopLeftBeforeCellHeader ==
    /\ mode \in {"cells", "fallback", "extracted"} => consulted[1] = "top_left"
    /\ mode \in {"cells", "fallback"} => ~C10_Consulted("whole_image")
    /\ mode = "extracted" =>
          /\ C10_TopLeft # None => extraction[1].year_month = C10_TopLeft
          /\ C10_TopLeft = None /\ C10_Yielding # {} =>
                extraction[1].year_month = C10_CellYearMonth(C10_FirstYielding)
          /\ C10_Consulted("whole_image") <=> (C10_TopLeft = None /\ C10_Yielding = {})
          /\ C10_Consulted("whole_image") => extraction[1].year_month = C10_Whole

\* the top-left region and a cell both yielded a year-month, two different
\* ones, and the extraction ended with the region's
C10_Witness ==
    /\ mode = "extracted"
    /\ C10_TopLeft = Some(<<2026, 1>>)
    /\ C10_Yielding # {}
    /\ C10_CellYearMonth(C10_FirstYielding) = Some(<<2025, 9>>)
    /\ extraction[1].year_month = Some(<<2026, 1>>)
    /\ consulted = <<"top_left">>


(***************************************************************************)
(* process_uploaded_image (controllers/main_controller.py), stage by       *)
(* stage.  detected_cells is what detect_table_cells returns, the          *)
(* extraction runs through StartExtraction .. FinishExtraction.            *)
(***************************************************************************)
\* "if not attendance_data": an empty dict
EmptyResult(data) == DOMAIN data = {}

\* load_image, preprocess_image, detect_table_cells, "if not cells"
UploadImage ==
    /\ mode = "upload"
    /\ data_at_call' = Some(<<current_data, heap>>)
    /\ IF upload # "none" \/ detected_cells = <<>>
       THEN mode' = "returned" /\ result' = Some(FALSE)
       ELSE mode' = "extract" /\ UNCHANGED result
    /\ UNCHANGED <<upload, view, ctlVars, exVars, notPipeVars>>

\* "if not attendance_data", _validate_and_clean_attendance_data and
\* "self.current_data = self._build_monthly_attendance(cleaned_data)"
Assemble ==
    /\ mode = "extracted"
    /\ IF EmptyResult(extraction[1])
       THEN /\ mode' = "returned" /\ result' = Some(FALSE)
            /\ UNCHANGED <<current_data, heap>>
       ELSE \E built \in {_build_monthly_attendance(
                            _validate_and_clean_attendance_data(extraction[1]),
                            now, configFile)} :
              IF built = None
              THEN /\ mode' = "returned" /\ result' = Some(FALSE)
                   /\ UNCHANGED <<current_data, heap>>
              ELSE /\ mode' = "assembled" /\ UNCHANGED result
                   /\ heap' = built[1].days
                   /\ current_data' = Some(NewMonth(built[1].year_month,
                                                    [i \in 1..Len(built[1].days) |-> i],
                                                    heap'))
    /\ UNCHANGED <<upload, view, data_at_call, configFile, now, lastOp, opCount,
                   exVars, notPipeVars>>

\* "if self.view: self.view.update_calendar_display(...) ..." and the return
UpdateView ==
    /\ mode = "assembled"
    /\ mode' = "returned"
    /\ result' = Some(view # "raises")
    /\ UNCHANGED <<upload, view, data_at_call, ctlVars, exVars, notPipeVars>>

(***************************************************************************)
(* The pipeline specification: a file is uploaded to a controller that     *)
(* holds no month or an earlier one.                                       *)
(***************************************************************************)
PipelineCellSamples ==
    { CellImage(80, "ok", Some(<< <<"1", "5", "ri">>,
                                  <<"9", ":", "0", "5", " ", "1", "8", ":", "3", "0">> >>),
                Some(<<"green", "green">>)),
      CellImage(80, "ok", Some(<< <<"1", "5">>, <<"0", "8", ":", "0", "0">> >>),
                Some(<<"gray">>)),
      CellImage(80, "ok", Some(<< <<"kao", "qin">> >>), Some(<<>>)),
      CellImage(80, "ok", Some(<< <<"2", "0", "2", "5", "nian", "0", "9", "yue">> >>),
                Some(<<>>)) }

\* what the recognizer makes of the top-left region and of the whole picture
PipelineRegions ==
    { [top_left |-> None, whole |-> None],
      [top_left |-> Some(<<>>), whole |-> Some(<< <<"kao", "qin">>, <<"1", "5", "ri">> >>)],
      [top_left |-> Some(<< <<"2", "0", "2", "6", ".", "1">> >>), whole |-> None] }

PipelineConfig ==
    JsonConfig(<< [year |-> Some(2026),
                   holidays |-> Some({<<2026, 1, 1>>, <<2026, 11, 3>>}),
                   workdays |-> Some({<<2026, 11, 7>>})] >>)

\* the month an earlier upload left in the controller
EarlierMonth ==
    _build_monthly_attendance([year_month |-> Some(<<2024, 2>>), daily_records |-> <<>>],
                              <<2026, 11>>, PipelineConfig)[1]

PipelineInit ==
    /\ mode = "upload"
    /\ \/ /\ upload \in {"load", "preprocess", "detect"}
          /\ view = "ok"
          /\ original_image = Some([top_left |-> None, whole |-> None])
          /\ detected_cells = <<>>
       \/ /\ upload = "none"
          /\ view \in {"none", "ok", "raises"}
          /\ original_image \in {Some(r) : r \in PipelineRegions}
          /\ detected_cells \in UNION {
                 {[i \in 1..k |-> Placed(images[i], DetectedPosition(k, i))] :
                     images \in [1..k -> PipelineCellSamples]} : k \in 0..MaxPipelineCells}
    /\ \/ current_data = None /\ heap = <<>>
       \/ /\ heap = EarlierMonth.days
          /\ current_data = Some(NewMonth(EarlierMonth.year_month,
                                          [i \in 1..Len(EarlierMonth.days) |-> i],
                                          EarlierMonth.days))
    /\ configFile = PipelineConfig
    /\ now = <<2026, 11>>
    /\ lastOp = None
    /\ opCount = 0
    /\ extraction = None
    /\ pending = <<>>
    /\ processed_count = 0
    /\ consulted = <<>>
    /\ recognized = <<>>
    /\ result = None
    /\ data_at_call = None
    /\ IdleExcept({"ctl", "ex", "pipe"})

PipelineNext ==
    \/ UploadImage
    \/ StartExtraction
    \/ ProcessCell
    \/ EndLoop
    \/ FinishExtraction
    \/ Assemble
    \/ UpdateView

SpecPipeline == PipelineInit /\ [][PipelineNext]_vars

\* no region and no cell yields a year-month for the picture
C11_NoYearMonth ==
    /\ C10_TopLeft = None
    /\ C10_Yielding = {}
    /\ C10_Whole = None

\* C11: if no cell and neither fallback yields a year-month (also when the
\* fallback recognitions themselves fail), extraction does not abort:
\* process_uploaded_image still builds a full month, whose year_month is the
\* year and month of the current system date.
C11_DefaultsToCurrentMonth ==
    upload = "none" /\ detected_cells # <<>> /\ C11_NoYearMonth =>
        /\ mode = "extracted" => extraction[1].year_month = None
        /\ mode \in {"assembled", "returned"} =>
              /\ current_data # None
              /\ current_data[1].year_month = now
              /\ Len(current_data[1].data) = 30
              /\ \A i \in 1..30 : heap[current_data[1].data[i]].date = <<2026, 11, i>>
        /\ mode = "returned" /\ view # "raises" => result = Some(TRUE)

\* both fallback recognitions raised, no cell held a header, and the call
\* returned with a month for November 2026 that holds a cell's record
C11_Witness ==
    /\ mode = "returned"
    /\ result = Some(TRUE)
    /\ original_image = Some([top_left |-> None, whole |-> None])
    /\ Len(detected_cells) = 2
    /\ C11_NoYearMonth
    /\ data_at_call = Some(<<None, <<>>>>)
    /\ current_data[1].year_month = <<2026, 11>>
    /\ heap[current_data[1].data[15]].clock_in.time # <<>>


(***************************************************************************)
(* The crowded-picture specification: _extract_attendance_data runs on     *)
(* about as many cells as its loop's limit.  Every cell holds a day; the   *)
(* fifth one is ordinary, too small, not extractable or not readable.      *)
(***************************************************************************)
CrowdedImage(i, fifth) ==
    CellImage(IF i = 5 /\ fifth = "small" THEN 8 ELSE 80,
              IF i = 5 /\ fifth = "raises" THEN "raises" ELSE "ok",
              IF i = 5 /\ fifth = "unreadable" THEN None
              ELSE Some(<< Fmt02(((i - 1) % 28) + 1) \o <<"ri">> >>),
              Some(<<"green">>))

CrowdedInit ==
    /\ mode = "extract"
    /\ original_image = Some([top_left |-> Some(<< <<"2", "0", "2", "6", ".", "1">> >>),
                              whole |-> None])
    /\ \E extra \in 0..MaxExtraCells, fifth \in {"ordinary", "small", "raises", "unreadable"} :
          detected_cells =
              [i \in 1..(max_cells_to_process - 1 + extra) |->
                  Placed(CrowdedImage(i, fifth),
                         DetectedPosition(max_cells_to_process - 1 + extra, i))]
    /\ extraction = None
    /\ pending = <<>>
    /\ processed_count = 0
    /\ consulted = <<>>
    /\ recognized = <<>>
    /\ IdleExcept({"ex"})

SpecCrowded == CrowdedInit /\ [][ExtractNext]_vars

\* cell i comes before cell j in row-major order
C12_Before(i, j) ==
    \/ detected_cells[i].row < detected_cells[j].row
    \/ /\ detected_cells[i].row = detected_cells[j].row
       /\ detected_cells[i].col < detected_cells[j].col

\* the cells that come after the 100th processed cell in row-major order:
\* 100 cells of accepted size and with an image come before them
C12_BeyondLimit ==
    {j \in DOMAIN detected_cells :
        Cardinality({i \in DOMAIN detected_cells :
                        C12_Before(i, j) /\ C10_Parsed(detected_cells[i])}) >= 100}

C12_AtMostHundred ==
    /\ Len(recognized) <= 100
    /\ processed_count <= 100
    /\ mode \in {"fallback", "extracted"} =>
          \A j \in C12_BeyondLimit :
              /\ \A k \in DOMAIN recognized :
                    recognized[k] # <<detected_cells[j].row, detected_cells[j].col>>
              /\ \A k \in DOMAIN extraction[1].daily_records :
                    <<extraction[1].daily_records[k].row, extraction[1].daily_records[k].col>>
                        # <<detected_cells[j].row, detected_cells[j].col>>

\* the number of steps the extraction can still take, at most
C12_StepsLeft ==
    IF mode = "extract" THEN Len(detected_cells) + 3
    ELSE IF mode = "cells" THEN Len(pending) + 2
    ELSE IF mode = "fallback" THEN 1
    ELSE 0

\* short of its end the extraction can take a step: the loop visits a cell
\* or ends
C12_CanStep ==
    \/ mode \in {"extract", "fallback", "extracted"}
    \/ /\ mode = "cells"
       /\ \/ pending # <<>> /\ processed_count < 100
          \/ pending = <<>>
          \/ processed_count >= 100

\* C12: for any picture and any number of detected cells, the per-cell loop
\* of _extract_attendance_data calls recognition and marker detection on at
\* most 100 cells, every cell after the 100th processed cell in row-major
\* order is skipped and contributes no record, and the loop terminates:
\* every step lowers the number of steps left, and a step is possible until
\* the end.
C12_LoopIsCapped ==
    /\ []C12_AtMostHundred
    /\ []C12_CanStep
    /\ [][C12_StepsLeft' < C12_StepsLeft]_vars

\* 102 cells were detected, the fifth too small: the loop processed 100 of
\* the other 101 and left the last one unvisited
C12_Witness ==
    /\ mode = "extracted"
    /\ Len(detected_cells) = 102
    /\ detected_cells[5].width = 8
    /\ processed_count = 100
    /\ Len(recognized) = 100
    /\ Len(pending) = 1
    /\ C12_BeyondLimit # {}
    /\ Len(extraction[1].daily_records) = 100


(***************************************************************************)
(* The faulty-cell specification: _extract_attendance_data runs on cells   *)
(* some of which make extract_cell_image, recognize_text or detect_dots    *)
(* raise.                                                                  *)
(***************************************************************************)
FaultyCellSamples ==
    { CellImage(80, "ok", Some(<< <<"1", "5", "ri">>, <<"9", ":", "0", "5">> >>),
                Some(<<"green">>)),
      CellImage(80, "ok", Some(<< <<"3", "ri">> >>), Some(<<"gray", "gray">>)),
      CellImage(80, "raises", Some(<< <<"7", "ri">> >>), Some(<<"green">>)),
      CellImage(80, "ok", None, Some(<<"green", "green">>)),
      CellImage(80, "ok", Some(<< <<"8", "ri">>, <<"0", "8", ":", "0", "0">> >>), None) }

FaultyInit ==
    /\ mode = "extract"
    /\ original_image = Some([top_left |-> None, whole |-> None])
    /\ detected_cells \in UNION {
           {[i \in 1..k |-> Placed(images[i], DetectedPosition(k, i))] :
               images \in [1..k -> FaultyCellSamples]} : k \in 1..MaxCells}
    /\ extraction = None
    /\ pending = <<>>
    /\ processed_count = 0
    /\ consulted = <<>>
    /\ recognized = <<>>
    /\ IdleExcept({"ex"})

SpecFaulty == FaultyInit /\ [][ExtractNext]_vars

\* the cell, had its failed step returned an empty result: no image, no
\* text, no dot
C13_Healed(cell) ==
    [cell EXCEPT !.image = IF @ = "raises" THEN "empty" ELSE @,
                 !.texts = IF @ = None THEN Some(<<>>) ELSE @,
                 !.dots = IF @ = None THEN Some(<<>>) ELSE @]

\* the detected cells in row-major order, with their row indexes
C13_RowMajor == Visits(_group_cells_by_row(detected_cells), 0)

\* the daily records of cells none of whose steps fails, visited in order
RECURSIVE C13_Records(_)
C13_Records(visits) ==
    IF visits = <<>> THEN <<>>
    ELSE LET cell == Head(visits)[2]
             cell_data == _parse_cell_content(cell.texts[1], cell.dots[1],
                                              Head(visits)[1], cell.col)
         IN  (IF cell.image = "ok" /\ cell_data # None /\ cell_data[1].type = "daily"
              THEN <<cell_data[1]>> ELSE <<>>)
             \o C13_Records(Tail(visits))

\* C13: a failure while one cell is processed (cell-image extraction, text
\* recognition or marker detection raising) never aborts the per-cell loop:
\* every later cell in row-major order is still processed, and the records
\* collected are those the cells give when the failed step is taken to have
\* returned an empty result.
C13_CellFailuresAreLocal ==
    mode \in {"fallback", "extracted"} =>
        /\ pending = <<>>
        /\ recognized =
              [k \in 1..Len(recognized) |->
                  LET ok == {i \in DOMAIN C13_RowMajor : C13_RowMajor[i][2].image = "ok"}
                      i == CHOOSE i \in ok : Cardinality({j \in ok : j < i}) = k - 1
                  IN  <<C13_RowMajor[i][2].row, C13_RowMajor[i][2].col>>]
        /\ Len(recognized) =
              Cardinality({i \in DOMAIN detected_cells : detected_cells[i].image = "ok"})
        /\ extraction[1].daily_records =
              C13_Records([i \in DOMAIN C13_RowMajor |->
                              <<C13_RowMajor[i][1], C13_Healed(C13_RowMajor[i][2])>>])

\* the first cell in row-major order could not be extracted, the second
\* could not be read, marker detection raised on the third: the loop went
\* on to the third, which gave its record
C13_Witness ==
    /\ mode = "extracted"
    /\ Len(detected_cells) = 3
    /\ detected_cells[2].image = "raises"
    /\ detected_cells[1].texts = None
    /\ detected_cells[3].dots = None
    /\ recognized = << <<0, 1>>, <<1, 0>> >>
    /\ Len(extraction[1].daily_records) = 1
    /\ extraction[1].daily_records[1].day = 8
    /\ extraction[1].daily_records[1].status.clock_in_status = "NotClocked"


\* the upload went through to the assembly of a month
C14_Assembled ==
    upload = "none" /\ detected_cells # <<>> /\ mode \in {"assembled", "returned"}

\* record a was parsed from a cell that comes before the cell of record b in
\* row-major order
C14_Earlier(a, b) == a.row < b.row \/ (a.row = b.row /\ a.col < b.col)

\* the extracted records that claim the day
C14_Claims(day) ==
    {k \in DOMAIN extraction[1].daily_records : extraction[1].daily_records[k].day = day}

\* the one of them whose cell is last in row-major order, sanitized
C14_LastClaim(day) ==
    CleanRecord(extraction[1].daily_records[
        CHOOSE k \in C14_Claims(day) : \A j \in C14_Claims(day) :
            j = k \/ C14_Earlier(extraction[1].daily_records[j],
                                 extraction[1].daily_records[k])])

\* C14: daily records are collected in row-major, then column order of the
\* cell grid, and when several records claim the same day number the
\* assembled DailyAttendance of that day takes its times and statuses from
\* the record that is last in that order alone.
C14_LastRecordWins ==
    C14_Assembled =>
        /\ \A j, k \in DOMAIN extraction[1].daily_records :
              j < k => C14_Earlier(extraction[1].daily_records[j],
                                   extraction[1].daily_records[k])
        /\ \A day \in 1..Len(current_data[1].data) :
              C14_Claims(day) # {} =>
                  LET last == C14_LastClaim(day)
                      built == heap[current_data[1].data[day]]
                  IN  /\ built.clock_in.time = last.times.clock_in
                      /\ built.clock_out.time = last.times.clock_out
                      /\ built.clock_in.status =
                            IF last.times.clock_in # <<>>
                               /\ last.status.clock_in_status = "NotClocked"
                            THEN "Normal" ELSE last.status.clock_in_status
                      /\ built.clock_out.status =
                            IF last.times.clock_out # <<>>
                               /\ last.status.clock_out_status = "NotClocked"
                            THEN "Normal" ELSE last.status.clock_out_status

\* two cells of one row claim day 15; the right one was detected first and
\* holds 08:00 and one gray dot, the left one 9:05, 18:30 and two green dots:
\* day 15 has the right cell's data, without the left cell's clock-out time
C14_Witness ==
    /\ C14_Assembled
    /\ Len(detected_cells) = 2
    /\ Len(extraction[1].daily_records) = 2
    /\ extraction[1].daily_records[1].day = 15
    /\ extraction[1].daily_records[2].day = 15
    /\ extraction[1].daily_records[1].col = 0
    /\ extraction[1].daily_records[1].times.clock_out = T_1830
    /\ detected_cells[1].col = 1
    /\ heap[current_data[1].data[15]].clock_in.time = <<"0", "8", ":", "0", "0">>
    /\ heap[current_data[1].data[15]].clock_in.status = "Abnormal"
    /\ heap[current_data[1].data[15]].clock_out.time = <<>>
    /\ heap[current_data[1].data[15]].clock_out.status = "NotClocked"


\* the daily records the extraction handed to process_uploaded_image
C16_NoDailyRecord ==
    /\ extraction # None
    /\ ~EmptyResult(extraction[1])
    /\ extraction[1].daily_records = <<>>

\* C16: process_uploaded_image returns False, without producing a month, both
\* when detect_table_cells finds no cell and when cells are found but no
\* daily record is extracted from any of them.
C16_NoRecordsIsFailure ==
    mode = "returned" /\ upload = "none"
    /\ (detected_cells = <<>> \/ C16_NoDailyRecord) =>
        /\ result = Some(FALSE)
        /\ <<current_data, heap>> = data_at_call[1]

\* C17: whenever process_uploaded_image returns False, whichever stage failed
\* (the view update included), current_data is the same object with the same
\* content as before the call.
C17_FailureLeavesCurrentData ==
    mode = "returned" /\ result = Some(FALSE) =>
        <<current_data, heap>> = data_at_call[1]


(***************************************************************************)
(* _assign_cell_positions (services/image_processor.py).  A CellInfo is    *)
(* [x, y, width, height, row, col]; the list is sorted in place, so the    *)
(* rows hold indexes into the sorted list.  row_y_threshold is             *)
(* cells[0].height * 0.5: the comparison is made on the doubled values.    *)
(***************************************************************************)
MaxContours == 3

Distance(a, b) == IF a < b THEN b - a ELSE a - b

\* cells.sort(key=lambda cell: cell.y): a stable sort
SortByY(list) ==
    [k \in 1..Len(list) |->
        list[CHOOSE i \in DOMAIN list :
                Cardinality({j \in DOMAIN list :
                    \/ list[j].y < list[i].y
                    \/ list[j].y = list[i].y /\ j < i}) = k - 1]]

SortByX_left_as_is(list, current_row) == current_row

\* current_row.sort(key=lambda cell: cell.x): a stable sort
SortByX(list, current_row) ==
    [k \in 1..Len(current_row) |->
        current_row[CHOOSE i \in DOMAIN current_row :
                Cardinality({j \in DOMAIN current_row :
                    \/ list[current_row[j]].x < list[current_row[i]].x
                    \/ list[current_row[j]].x = list[current_row[i]].x /\ j < i}) = k - 1]]

\* "abs(cells[i].y - current_row[-1].y) < row_y_threshold"
JoinsRow(list, i, current_row, doubled_threshold) ==
    2 * Distance(list[i].y, list[current_row[Len(current_row)]].y) < doubled_threshold

\* the loop "for i in range(1, len(cells))" and the last row
RECURSIVE GroupRows(_, _, _, _, _)
GroupRows(list, i, rows, current_row, doubled_threshold) ==
    IF i > Len(list) THEN Append(rows, SortByX(list, current_row))
    ELSE IF JoinsRow(list, i, current_row, doubled_threshold)
    THEN GroupRows(list, i + 1, rows, Append(current_row, i), doubled_threshold)
    ELSE GroupRows(list, i + 1, Append(rows, SortByX(list, current_row)), <<i>>,
                   doubled_threshold)

\* the list as the call leaves it
_assign_cell_positions(list) ==
    IF list = <<>> THEN list
    ELSE LET sorted == SortByY(list)
             rows == GroupRows(sorted, 2, <<>>, <<1>>, sorted[1].height)
             row_idx(i) == CHOOSE r \in DOMAIN rows : \E c \in DOMAIN rows[r] : rows[r][c] = i
             col_idx(i) == CHOOSE c \in DOMAIN rows[row_idx(i)] : rows[row_idx(i)][c] = i
         IN  [i \in DOMAIN sorted |->
                 [sorted[i] EXCEPT !.row = row_idx(i) - 1, !.col = col_idx(i) - 1]]

AssignCellPositions ==
    /\ mode = "contours"
    /\ mode' = "assigned"
    /\ cells' = Some(_assign_cell_positions(contours))
    /\ UNCHANGED <<contours, notGridVars>>

\* the CellInfo detect_table_cells creates for a bounding rectangle
CellInfo(x, y, height) ==
    [x |-> x, y |-> y, width |-> 50, height |-> height, row |-> -1, col |-> -1]

ContourPool == {CellInfo(x, y, height) : x \in {0, 60}, y \in {0, 8, 16, 30}, height \in {20, 40}}

GridInit ==
    /\ mode = "contours"
    /\ contours \in UNION {[1..n -> ContourPool] : n \in 0..MaxContours}
    /\ cells = None
    /\ IdleExcept({"grid"})

GridNext == AssignCellPositions

SpecGrid == GridInit /\ [][GridNext]_vars

\* the cells that start a new row when each cell is compared with the first
\* member of the current row and half of that member's height
RECURSIVE C18_Starts(_, _, _)
C18_Starts(list, i, first) ==
    IF i > Len(list) THEN {}
    ELSE IF 2 * Distance(list[i].y, list[first].y) < list[first].height
    THEN C18_Starts(list, i + 1, first)
    ELSE {i} \cup C18_Starts(list, i + 1, i)

\* C18: with the cells visited in ascending y, a cell joins the current row
\* exactly when its y-distance from the row's first member is less than half
\* of that first member's height; otherwise it starts a new row, whose first
\* member sets the new reference and threshold.
C18_RowsFollowFirstMember ==
    mode = "assigned" =>
        \A i \in 2..Len(cells[1]) :
            (cells[1][i].row # cells[1][i - 1].row) <=> i \in C18_Starts(cells[1], 2, 1)


(***************************************************************************)
(* The global registry of core/workday_calculator.py: _workday_calculator, *)
(* get_workday_calculator, reset_workday_calculator and the module-level   *)
(* get_day_type.  Each thread runs one call at a time; a step is one read  *)
(* or write of the global, or one item of the file loaded into the object  *)
(* under construction, which is local to its thread until it is stored.    *)
(* The file is edited between calls.                                       *)
(***************************************************************************)
MaxCalls == 4

Threads == DOMAIN pc

Idle == \A t \in Threads : pc[t] = "idle"

\* the calls started so far
Started == Len(calls) + Cardinality({t \in Threads : pc[t] # "idle"})

\* "if _workday_calculator is None"
IsMissing_always(value) == TRUE

IsMissing(value) == value = None

Completed(t, name, instance, outcome) ==
    calls' = Append(calls, [thread |-> t, call |-> name, instance |-> instance,
                            config |-> holidays_json, outcome |-> outcome])

\* get_workday_calculator() or get_day_type(date_str) is called
CallGet(t) ==
    /\ mode = "registry"
    /\ pc[t] = "idle"
    /\ Started < MaxCalls
    /\ \E name \in {"get", "lookup"} : call' = [call EXCEPT ![t] = name]
    /\ pc' = [pc EXCEPT ![t] = "check"]
    /\ UNCHANGED <<mode, holidays_json, registry, calculators, loading, got, calls,
                   notRegVars>>

\* "if _workday_calculator is None:"
Check(t) ==
    /\ mode = "registry"
    /\ pc[t] = "check"
    /\ pc' = [pc EXCEPT ![t] = IF IsMissing(registry) THEN "construct" ELSE "return"]
    /\ UNCHANGED <<mode, holidays_json, registry, calculators, call, loading, got, calls,
                   notRegVars>>

\* WorkdayCalculator.__init__: the two empty dictionaries, and the file read
\* if it exists and is JSON
Construct(t) ==
    /\ mode = "registry"
    /\ pc[t] = "construct"
    /\ calculators' = Append(calculators,
                             [holidays |-> EmptyDict, workdays_override |-> EmptyDict])
    /\ loading' = [loading EXCEPT ![t] =
                      Some([id |-> Len(calculators) + 1,
                            items |-> IF holidays_json.kind = "json"
                                      THEN holidays_json.items ELSE <<>>])]
    /\ pc' = [pc EXCEPT ![t] = "load"]
    /\ UNCHANGED <<mode, holidays_json, registry, call, got, calls, notRegVars>>

\* one turn of "for year_str, year_config in config.items()"; a ValueError
\* ends the loop
Load(t) ==
    /\ mode = "registry"
    /\ pc[t] = "load"
    /\ loading[t][1].items # <<>>
    /\ LET id == loading[t][1].id
           it == Head(loading[t][1].items)
       IN  /\ calculators' = [calculators EXCEPT ![id] =
                  LoadItems(calculators[id].holidays, calculators[id].workdays_override,
                            <<it>>)]
           /\ loading' = [loading EXCEPT ![t] =
                  Some([id |-> id,
                        items |-> IF it.year = None THEN <<>>
                                  ELSE Tail(loading[t][1].items)])]
    /\ UNCHANGED <<mode, holidays_json, registry, pc, call, got, calls, notRegVars>>

\* "_workday_calculator = WorkdayCalculator(config_path)": the store
Store(t) ==
    /\ mode = "registry"
    /\ pc[t] = "load"
    /\ loading[t][1].items = <<>>
    /\ registry' = Some(loading[t][1].id)
    /\ loading' = [loading EXCEPT ![t] = None]
    /\ pc' = [pc EXCEPT ![t] = "return"]
    /\ UNCHANGED <<mode, holidays_json, calculators, call, got, calls, notRegVars>>

\* "return _workday_calculator": the global is read again
Return(t) ==
    /\ mode = "registry"
    /\ pc[t] = "return"
    /\ IF call[t] = "get"
       THEN /\ pc' = [pc EXCEPT ![t] = "idle"]
            /\ Completed(t, "get", registry, "returned")
            /\ UNCHANGED got
       ELSE /\ pc' = [pc EXCEPT ![t] = "use"]
            /\ got' = [got EXCEPT ![t] = Some(registry)]
            /\ UNCHANGED calls
    /\ UNCHANGED <<mode, holidays_json, registry, calculators, call, loading, notRegVars>>

\* ".get_day_type(date_str)" on what get_workday_calculator() returned
Use(t) ==
    /\ mode = "registry"
    /\ pc[t] = "use"
    /\ \E date \in {<<2024, 2, 1>>} :
          Completed(t, "lookup", got[t][1],
                    IF got[t][1] = None THEN "AttributeError"
                    ELSE get_day_type(calculators[got[t][1][1]].holidays,
                                      calculators[got[t][1][1]].workdays_override, date))
    /\ pc' = [pc EXCEPT ![t] = "idle"]
    /\ got' = [got EXCEPT ![t] = None]
    /\ UNCHANGED <<mode, holidays_json, registry, calculators, call, loading, notRegVars>>

\* reset_workday_calculator(): "_workday_calculator = None"
Reset(t) ==
    /\ mode = "registry"
    /\ pc[t] = "idle"
    /\ Started < MaxCalls
    /\ registry' = None
    /\ Completed(t, "reset", None, "returned")
    /\ UNCHANGED <<mode, holidays_json, calculators, pc, call, loading, got, notRegVars>>

RegistryConfigs ==
    { MissingConfig,
      JsonConfig(<< [year |-> Some(2024), holidays |-> Some({<<2024, 2, 1>>}),
                     workdays |-> Some({<<2024, 2, 3>>})],
                    [year |-> Some(2025), holidays |-> Some({<<2025, 1, 1>>}),
                     workdays |-> None] >>) }

\* config/holidays.json is rewritten
EditConfig ==
    /\ mode = "registry"
    /\ Idle
    /\ holidays_json' \in RegistryConfigs \ {holidays_json}
    /\ UNCHANGED <<mode, registry, calculators, pc, call, loading, got, calls, notRegVars>>

\* the module has just been imported by a program of n threads
RegistryStart(n) ==
    /\ mode = "registry"
    /\ holidays_json \in RegistryConfigs
    /\ registry = None
    /\ calculators = <<>>
    /\ pc = [t \in 1..n |-> "idle"]
    /\ call = [t \in 1..n |-> "get"]
    /\ loading = [t \in 1..n |-> None]
    /\ got = [t \in 1..n |-> None]
    /\ calls = <<>>
    /\ IdleExcept({"reg"})

RegistryInit == RegistryStart(1)

RegistryNext ==
    \/ \E t \in Threads : CallGet(t)
    \/ \E t \in Threads : Check(t)
    \/ \E t \in Threads : Construct(t)
    \/ \E t \in Threads : Load(t)
    \/ \E t \in Threads : Store(t)
    \/ \E t \in Threads : Return(t)
    \/ \E t \in Threads : Use(t)
    \/ \E t \in Threads : Reset(t)
    \/ EditConfig

\* the calls are made one after another
SpecRegistry == RegistryInit /\ [][RegistryNext]_vars

\* the k-th completed call asked for the registry
C19_Asks(k) == calls[k].call # "reset"

\* it is the first call, or the first one after a reset
C19_First(k) == C19_Asks(k) /\ (k = 1 \/ calls[k - 1].call = "reset")

\* C19: the registry is constructed on the first get_workday_calculator call;
\* every later call returns the same instance, not reloaded from the config,
\* until reset_workday_calculator is called; the first call after a reset
\* constructs a new instance from the config as it is at that moment.
C19_SingletonLifecycle ==
    /\ Idle => Len(calculators) = Cardinality({k \in DOMAIN calls : C19_First(k)})
    /\ \A k \in DOMAIN calls : C19_Asks(k) =>
          /\ calls[k].instance # None
          /\ IF C19_First(k)
             THEN /\ \A j \in 1..(k - 1) : calls[j].instance # calls[k].instance
                  /\ calculators[calls[k].instance[1]] = NewWorkdayCalculator(calls[k].config)
             ELSE calls[k].instance = calls[k - 1].instance

\* two calls returned one instance although the file changed between them,
\* and after a reset a third call returned another one, loaded from the file
\* as it then was
C19_Witness ==
    /\ Len(calls) = 4
    /\ C19_Asks(1) /\ C19_Asks(2) /\ calls[3].call = "reset" /\ C19_Asks(4)
    /\ calls[1].config # calls[2].config
    /\ calls[2].instance = calls[1].instance
    /\ calls[4].instance # calls[1].instance
    /\ calculators[calls[4].instance[1]] # calculators[calls[1].instance[1]]
    /\ calculators[calls[4].instance[1]] = NewWorkdayCalculator(holidays_json)
    /\ NewWorkdayCalculator(calls[2].config) # calculators[calls[2].instance[1]]


(***************************************************************************)
(* The same calls made by two threads: the worker thread that runs         *)
(* process_uploaded_image (gui/main_window.py, ImageProcessingThread) and  *)
(* the thread that started it.                                             *)
(***************************************************************************)
RaceInit == RegistryStart(2)

SpecRace == RaceInit /\ [][RegistryNext]_vars

\* C20: when reset_workday_calculator runs concurrently with get_day_type or
\* is_workday lookups of another thread, every lookup is made on one fully
\* loaded registry instance: it never obtains None, nor an instance whose
\* holiday and override sets are still being loaded.
C20_LookupsSeeWholeRegistry ==
    \A t \in Threads : pc[t] = "use" =>
        /\ got[t][1] # None
        /\ \A u \in Threads :
              loading[u] # None => loading[u][1].id # got[t][1][1]



(***************************************************************************)
(* WorkdayCalculator(config_path): the construction, then lookups on the   *)
(* new instance.  holidays_json is the content of the file at config_path. *)
(***************************************************************************)
\* what open() / json.load() / int() raise inside load_holiday_config's try
LoadError(config) ==
    IF config.kind = "missing" THEN "FileNotFoundError"
    ELSE IF config.kind = "malformed" THEN "JSONDecodeError"
    ELSE IF \E i \in DOMAIN config.items : config.items[i].year = None THEN "ValueError"
    ELSE "none"

\* "except (FileNotFoundError, json.JSONDecodeError, ValueError)"
CaughtByLoad_no_json_error == {"FileNotFoundError", "ValueError"}

CaughtByLoad == {"FileNotFoundError", "JSONDecodeError", "ValueError"}

\* __init__ calls load_holiday_config only "if config_path and
\* os.path.exists(config_path)"
ConstructionRaises(config) ==
    /\ config.kind # "missing"
    /\ LoadError(config) \notin CaughtByLoad \cup {"none"}

NewInstance ==
    /\ mode = "new"
    /\ IF ConstructionRaises(holidays_json)
       THEN mode' = "raised" /\ UNCHANGED <<holidays, workdays_override>>
       ELSE /\ mode' = "calendar"
            /\ holidays' = NewWorkdayCalculator(holidays_json).holidays
            /\ workdays_override' = NewWorkdayCalculator(holidays_json).workdays_override
    /\ UNCHANGED <<calQuery, notCalVars>>

February2024 == {<<2024, 2, d>> : d \in 1..29}

ConstructInit ==
    /\ mode = "new"
    /\ holidays_json \in SampleConfigs
    /\ holidays = EmptyDict
    /\ workdays_override = EmptyDict
    /\ calQuery = None
    /\ registry = None /\ calculators = <<>> /\ pc = <<>> /\ call = <<>>
    /\ loading = <<>> /\ got = <<>> /\ calls = <<>>
    /\ IdleExcept({"cal", "reg"})

ConstructNext ==
    \/ NewInstance
    \/ \E date \in February2024 : Lookup(date)

SpecConstruct == ConstructInit /\ [][ConstructNext]_vars

\* C21: constructing a WorkdayCalculator from a config path does not raise
\* when the file is missing or is not valid JSON; the instance then has
\* empty holidays and workdays_override, so every lookup follows the natural
\* weekday rule (only Saturday is not a workday).
C21_BadConfigGivesEmptyRegistry ==
    holidays_json.kind \in {"missing", "malformed"} =>
        /\ mode # "raised"
        /\ mode = "calendar" =>
              /\ holidays = EmptyDict
              /\ workdays_override = EmptyDict
              /\ calQuery # None =>
                    /\ calQuery[1].is_workday <=> calQuery[1].date \notin KnownSaturdays
                    /\ calQuery[1].day_type =
                          IF calQuery[1].date \in KnownSaturdays THEN "RestDay" ELSE "Workday"

\* an instance made from a file that is not JSON answered a lookup of
\* Saturday 2024-02-03
C21_Witness ==
    /\ mode = "calendar"
    /\ holidays_json = MalformedConfig
    /\ calQuery # None
    /\ calQuery[1].date = <<2024, 2, 3>>
    /\ calQuery[1].day_type = "RestDay"
    /\ ~calQuery[1].is_workday



(***************************************************************************)
(* The times specification: a cell that names day 15 and holds some        *)
(* time-like tokens is parsed by _parse_cell_content and its record is     *)
(* sanitized by _validate_and_clean_attendance_data, as                    *)
(* process_uploaded_image does.                                            *)
(***************************************************************************)
MaxTimeTokens == 3

T_0905 == <<"0", "9", ":", "0", "5">>

\* the tokens the recognizer returns, one text fragment each
TimeTokens ==
    { <<"9", ":", "0", "5">>, T_1830, T_2500, T_1260, T_9_5, T_0900_no_colon }

TimesInit ==
    /\ mode = "parse"
    /\ parseIn \in { Some([texts |-> <<<<"1", "5", "ri">>>> \o tokens, dots |-> <<>>,
                           row |-> 1, col |-> 2]) :
                        tokens \in SeqsUpTo(TimeTokens, MaxTimeTokens) }
    /\ parseOut = None
    /\ sanIn = None
    /\ sanOut = None
    /\ sanOut2 = None
    /\ IdleExcept({"parse", "san"})

\* "cleaned_data = self._validate_and_clean_attendance_data(attendance_data)"
\* on the record of the cell
CleanParsed ==
    /\ mode = "parsed"
    /\ mode' = "parsed_cleaned"
    /\ sanIn' = Some([year_month |-> None,
                      daily_records |-> IF parseOut # None /\ parseOut[1].type = "daily"
                                        THEN <<parseOut[1]>> ELSE <<>>])
    /\ sanOut' = Some(_validate_and_clean_attendance_data(sanIn'[1]))
    /\ UNCHANGED <<sanOut2, calVars, parseVars, dotVars, ctlVars, exVars, pipeVars,
                   gridVars, regVars, loopVars>>

TimesNext == ParseCell \/ CleanParsed

SpecTimes == TimesInit /\ [][TimesNext]_vars

\* the tokens of the cell, without the day
C22_Tokens == Tail(parseIn[1].texts)

\* the HH:MM-shaped ones among them, in order
C22_IsShaped(token) == token \in {<<"9", ":", "0", "5">>, T_1830, T_2500, T_1260}

C22_Shaped == SelectSeq(C22_Tokens, C22_IsShaped)

\* what a slot holding the token ends as
C22_Slot(token) ==
    IF token = <<"9", ":", "0", "5">> THEN T_0905
    ELSE IF token = T_1830 THEN T_1830
    ELSE <<>>

\* C22: after parsing and sanitizing, clock_in is the first HH:MM-shaped
\* token of the cell text and clock_out the second (empty when there are
\* fewer); a slot whose value is not two numeric parts with hour in [0,23]
\* and minute in [0,59], such as 25:00, is empty; nothing raises and the
\* record is not dropped.
C22_TimesParsedAndSanitized ==
    mode = "parsed_cleaned" =>
        /\ Len(sanOut[1].daily_records) = 1
        /\ sanOut[1].daily_records[1].day = 15
        /\ sanOut[1].daily_records[1].times.clock_in =
              IF Len(C22_Shaped) >= 1 THEN C22_Slot(C22_Shaped[1]) ELSE <<>>
        /\ sanOut[1].daily_records[1].times.clock_out =
              IF Len(C22_Shaped) >= 2 THEN C22_Slot(C22_Shaped[2]) ELSE <<>>

\* the cell read "15ri 9:5 25:00 18:30": the first shaped token, 25:00, was
\* blanked in clock_in and 18:30 is the clock-out time
C22_Witness ==
    /\ mode = "parsed_cleaned"
    /\ C22_Tokens = <<T_9_5, T_2500, T_1830>>
    /\ parseOut[1].times = [clock_in |-> T_2500, clock_out |-> T_1830]
    /\ sanOut[1].daily_records[1].times = [clock_in |-> <<>>, clock_out |-> T_1830]



\* the call made by a step, when the step is a call with a date on a
\* controller that holds a month
C23_CallOn(date) ==
    /\ mode = "month"
    /\ opCount' = opCount + 1
    /\ current_data # None
    /\ lastOp'[1].op \in {"get_day", "update_day", "update_attendance_record",
                          "confirm_attendance"}
    /\ lastOp'[1].args[1] = date

\* no entry of data carries the date
C23_NotCarried(date) ==
    \A i \in 1..Len(current_data[1].data) : heap[current_data[1].data[i]].date # date

\* the date is not a day of year_month
C23_NotOfMonth(date) == <<date[1], date[2]>> # current_data[1].year_month

C24_Row(r) == {i \in DOMAIN cells[1] : cells[1][i].row = r}

\* C24: after _assign_cell_positions on a non-empty list, every cell has
\* row >= 0 and col >= 0, no two cells share (row, col), the column indexes
\* of each row are exactly 0..k-1 in non-decreasing x order, and the row
\* indexes are non-decreasing in the cells' y.
C24_PositionsAssigned ==
    mode = "assigned" /\ contours # <<>> =>
        /\ Len(cells[1]) = Len(contours)
        /\ \A i \in DOMAIN cells[1] : cells[1][i].row >= 0 /\ cells[1][i].col >= 0
        /\ \A i, j \in DOMAIN cells[1] :
              /\ i # j => <<cells[1][i].row, cells[1][i].col>>
                              # <<cells[1][j].row, cells[1][j].col>>
              /\ cells[1][i].y < cells[1][j].y => cells[1][i].row <= cells[1][j].row
              /\ cells[1][i].row = cells[1][j].row /\ cells[1][i].col < cells[1][j].col
                    => cells[1][i].x <= cells[1][j].x
        /\ \A i \in DOMAIN cells[1] :
              {cells[1][j].col : j \in C24_Row(cells[1][i].row)}
                  = 0..(Cardinality(C24_Row(cells[1][i].row)) - 1)

\* three cells were given right one first; two of them share the first row
\* and got their columns by x, the third got the second row
C24_Witness ==
    /\ mode = "assigned"
    /\ contours = <<CellInfo(60, 8, 20), CellInfo(0, 30, 20), CellInfo(0, 0, 20)>>
    /\ cells[1][1] = [CellInfo(0, 0, 20) EXCEPT !.row = 0, !.col = 0]
    /\ cells[1][2] = [CellInfo(60, 8, 20) EXCEPT !.row = 0, !.col = 1]
    /\ cells[1][3] = [CellInfo(0, 30, 20) EXCEPT !.row = 1, !.col = 0]



\* the records given to the sanitizer and those it returned
C25_In == sanIn[1].daily_records

C25_Out == sanOut[1].daily_records

\* the day of the i-th record given is an integer in [1,31]
C25_DayOk(i) == "day" \in DOMAIN C25_In[i] /\ C25_In[i].day \in 1..31

\* the records given whose day is one, in order
C25_Kept == SelectSeq([i \in DOMAIN C25_In |-> IF C25_DayOk(i) THEN <<C25_In[i]>> ELSE <<>>],
                      LAMBDA r : r # <<>>)

\* a status slot of a returned record, against the value given for it
C25_StatusOk(given, returned, time) ==
    returned = IF given \in {"Normal", "Abnormal", "NotClocked"} THEN given
               ELSE IF time # <<>> THEN "Normal" ELSE "NotClocked"

C25_Given(record, group, key, default) ==
    IF group \in DOMAIN record /\ key \in DOMAIN record[group]
    THEN record[group][key] ELSE default

\* the rule of the claim, on what was given and what was returned
C25_Rule ==
    /\ Len(C25_Out) = Len(C25_Kept)
    /\ \A k \in DOMAIN C25_Out :
          /\ DOMAIN C25_Out[k] = {"type", "day", "weekday", "times", "status", "row", "col"}
          /\ DOMAIN C25_Out[k].times = {"clock_in", "clock_out"}
          /\ DOMAIN C25_Out[k].status = {"clock_in_status", "clock_out_status"}
          /\ C25_Out[k].day = C25_Kept[k][1].day
          /\ C25_StatusOk(C25_Given(C25_Kept[k][1], "status", "clock_in_status", "NotClocked"),
                          C25_Out[k].status.clock_in_status, C25_Out[k].times.clock_in)
          /\ C25_StatusOk(C25_Given(C25_Kept[k][1], "status", "clock_out_status", "NotClocked"),
                          C25_Out[k].status.clock_out_status, C25_Out[k].times.clock_out)
          /\ C25_Out[k].row = IF "row" \in DOMAIN C25_Kept[k][1] THEN C25_Kept[k][1].row ELSE 0
          /\ C25_Out[k].col = IF "col" \in DOMAIN C25_Kept[k][1] THEN C25_Kept[k][1].col ELSE 0

\* a record with a valid day holds a time that is not a string
C25_TimeNotAString ==
    \E i \in DOMAIN C25_In :
        /\ C25_DayOk(i)
        /\ \/ C25_Given(C25_In[i], "times", "clock_in", <<>>) = NotAStr
           \/ C25_Given(C25_In[i], "times", "clock_out", <<>>) = NotAStr

C26_QueriesAgree ==
    calQuery # None => (calQuery[1].is_workday <=> calQuery[1].day_type = "Workday")



(***************************************************************************)
(* The controller specification: process_raw_attendance_data, then         *)
(* update_attendance_record and confirm_attendance in any order, with any  *)
(* field name and value.                                                   *)
(***************************************************************************)
FieldUpdates ==
    TimeUpdates \cup TextUpdates \cup {<<"day_type", "late">>, <<"day_type", "RestDay">>}

ControllerNext ==
    \/ \E raw_data \in MonthInputs :
          mode = "month" /\ process_raw_attendance_data(raw_data)
    \/ \E date \in TargetDates, u \in FieldUpdates :
          mode = "month" /\ update_attendance_record(date, u[1], u[2])
    \/ \E date \in TargetDates :
          mode = "month" /\ confirm_attendance(date)

SpecController == MonthInit /\ [][ControllerNext]_vars

\* C27: in every state reached by process_raw_attendance_data followed by
\* update_attendance_record and confirm_attendance calls, every day's
\* day_type is Workday, RestDay or Holiday, so that work_days + rest_days +
\* holiday_days = total_days = the number of days of the month.
C27_DayTypesPartitionMonth ==
    current_data # None =>
        /\ \A i \in 1..Len(current_data[1].data) :
              heap[current_data[1].data[i]].day_type \in {"Workday", "RestDay", "Holiday"}
        /\ current_data[1].statistics.work_days + current_data[1].statistics.rest_days
              + current_data[1].statistics.holiday_days
                 = current_data[1].statistics.total_days
        /\ current_data[1].statistics.total_days
              = DaysInMonth(current_data[1].year_month[1], current_data[1].year_month[2])

\* a step that is a successful confirm_attendance call
C30_Confirms(date) ==
    /\ opCount' = opCount + 1
    /\ lastOp' = Some([op |-> "confirm_attendance", args |-> <<date>>, ok |-> TRUE])

\* C30: confirm_attendance(date) on a date of the current month changes only
\* that day's is_confirmed flag, to true: the day's date, weekday, day_type
\* and clock records and every other day are unchanged, and confirmed_days
\* does not decrease (it grows by one if the day was not confirmed yet).
C30_ConfirmChangesOnlyTheFlag ==
    [][\A date \in TargetDates : C30_Confirms(date) =>
          /\ current_data'[1].year_month = current_data[1].year_month
          /\ Len(current_data'[1].data) = Len(current_data[1].data)
          /\ \A i \in 1..Len(current_data[1].data) :
                heap'[current_data'[1].data[i]] =
                    IF heap[current_data[1].data[i]].date = date
                    THEN [heap[current_data[1].data[i]] EXCEPT !.is_confirmed = TRUE]
                    ELSE heap[current_data[1].data[i]]
          /\ current_data'[1].statistics.confirmed_days
                >= current_data[1].statistics.confirmed_days
          /\ current_data'[1].statistics.confirmed_days =
                Cardinality({i \in 1..Len(current_data[1].data) :
                    \/ heap[current_data[1].data[i]].is_confirmed
                    \/ heap[current_data[1].data[i]].date = date})]_vars

\* 1 and 3 February were confirmed one after the other: both flags are set,
\* 2 February is not confirmed, and the clock records of 3 February are
\* those of the assembled month
C30_Witness ==
    /\ mode = "month"
    /\ opCount = 3
    /\ lastOp = Some([op |-> "confirm_attendance", args |-> <<Feb03>>, ok |-> TRUE])
    /\ current_data[1].statistics.confirmed_days = 2
    /\ heap[current_data[1].data[1]].is_confirmed
    /\ ~heap[current_data[1].data[2]].is_confirmed
    /\ heap[current_data[1].data[3]].is_confirmed
    /\ heap[current_data[1].data[3]].clock_in = [time |-> T_0905, status |-> "Abnormal"]



\* C28: load_holiday_config is all-or-nothing: if loading fails at any point
\* (a non-numeric year key after valid year entries, for example), holidays
\* and workdays_override are what they were before the call, here empty.
C28_LoadIsAllOrNothing ==
    mode = "calendar" /\ LoadError(holidays_json) # "none" =>
        /\ holidays = EmptyDict
        /\ workdays_override = EmptyDict



(***************************************************************************)
(* _build_monthly_attendance day by day.  Each turn of its loop calls      *)
(* reset_workday_calculator() and get_day_type(date_str), which constructs *)
(* a calculator from config/holidays.json as the file is at that turn; the *)
(* file can be rewritten between two turns.                                *)
(***************************************************************************)
notLoopVars == <<calVars, parseVars, dotVars, sanVars, exVars, pipeVars, gridVars, regVars>>

\* year_month, days_in_month and daily_data_map are resolved before the loop
StartBuild ==
    /\ mode = "build_called"
    /\ mode' = "build_days"
    /\ \E raw_data \in MonthInputs :
         \E cleaned \in {_validate_and_clean_attendance_data(raw_data)} :
            building' = Some([year_month |-> IF cleaned.year_month = None THEN now
                                             ELSE cleaned.year_month[1],
                              records |-> cleaned.daily_records,
                              days |-> <<>>])
    /\ UNCHANGED <<ctlVars, notLoopVars>>

\* one turn of "for day in range(1, days_in_month + 1)"
BuildOneDay ==
    /\ mode = "build_days"
    /\ LET b == building[1]
           day == Len(b.days) + 1
       IN  /\ day <= days_in_month(b.year_month[1], b.year_month[2])
           /\ IF DayRaises(DayData(b.records, day))
              THEN /\ mode' = "build_failed"
                   /\ UNCHANGED building
              ELSE /\ building' = Some([b EXCEPT !.days =
                          Append(b.days, BuildDay(b.year_month[1], b.year_month[2], day,
                                                  DayData(b.records, day), configFile))])
                   /\ UNCHANGED mode
    /\ UNCHANGED <<ctlVars, notLoopVars>>

\* "MonthlyAttendance(year_month=..., data=daily_attendance_list)" and the
\* assignment to current_data
FinishBuild ==
    /\ mode = "build_days"
    /\ Len(building[1].days) = days_in_month(building[1].year_month[1],
                                             building[1].year_month[2])
    /\ mode' = "built"
    /\ heap' = building[1].days
    /\ current_data' = Some(NewMonth(building[1].year_month,
                                     [i \in 1..Len(building[1].days) |-> i], heap'))
    /\ UNCHANGED <<building, configFile, now, lastOp, opCount, notLoopVars>>

\* config/holidays.json is rewritten while the loop runs
RewriteHolidays ==
    /\ mode = "build_days"
    /\ configFile' \in MonthConfigs \ {configFile}
    /\ UNCHANGED <<mode, building, current_data, heap, now, lastOp, opCount, notLoopVars>>

LoopInit ==
    /\ mode = "build_called"
    /\ current_data = None
    /\ heap = <<>>
    /\ configFile \in MonthConfigs
    /\ now = <<2026, 11>>
    /\ lastOp = None
    /\ opCount = 0
    /\ building = None
    /\ IdleExcept({"ctl", "loop"})

LoopNext == StartBuild \/ BuildOneDay \/ FinishBuild \/ RewriteHolidays

SpecLoop == LoopInit /\ [][LoopNext]_vars

\* the day types of the month under one content of the file
C29_DayTypesUnder(config) ==
    [i \in 1..Len(current_data[1].data) |->
        get_day_type(load_holiday_config(EmptyDict, EmptyDict, config).holidays,
                     load_holiday_config(EmptyDict, EmptyDict, config).workdays_override,
                     <<current_data[1].year_month[1], current_data[1].year_month[2], i>>)]

\* C29: all days of one assembled month are classified against a single
\* snapshot of the holiday data: if the file changes while
\* _build_monthly_attendance iterates over the days, every day_type of the
\* month reflects one and the same version of it.
C29_OneSnapshotPerMonth ==
    mode = "built" =>
        \E config \in MonthConfigs :
            C29_DayTypesUnder(config) =
                [i \in 1..Len(current_data[1].data) |-> heap[current_data[1].data[i]].day_type]

=============================================================================
